---- MODULE Spec2Model ----
(***************************************************************************)
(* A model of the QTI -> assessment-model parser of PDF-to-LMS-Converter   *)
(* (src/src/qti_to_lms/qti_to_besser.py) and of the metamodel it builds    *)
(* (src/src/qti_to_lms/metamodel/qti.py).                                  *)
(*                                                                         *)
(* Conventions                                                             *)
(*  - a Python str is a sequence of symbols, a symbol being one character  *)
(*    (" " is the whitespace character) or a run of non-space characters;  *)
(*  - an optional value (None or v) is the set {} or {v};                  *)
(*  - an XML element is [tag, attrib, text, tail, children]: attrib is the *)
(*    set of <<name, value>> pairs, children the child elements in         *)
(*    document order;                                                      *)
(*  - an XML element's text is a str; ElementTree gives elem.text = None   *)
(*    exactly when that str is empty;                                      *)
(*  - a Python object is a record with a field oid, its identity (the path *)
(*    of child numbers of the element it was built from): the              *)
(*    metamodel classes define neither __eq__ nor __hash__, so two objects *)
(*    with equal fields are still two members of a set;                    *)
(*  - a function that may raise returns [exc |-> name, val |-> value],     *)
(*    exc = "none" when it returns normally;                               *)
(*  - the iteration order of a Python set of objects is an input chosen    *)
(*    nondeterministically.                                                *)
(*  - qti_to_besser.py calls AssessmentDefinition, AssessmentPart and      *)
(*    AssessmentSection, names that nothing binds: metamodel/qti.py        *)
(*    defines TestDefinition, TestPart and TestSection.  Looking one of    *)
(*    them up raises NameError, in the model as in the code.               *)
(***************************************************************************)
EXTENDS Integers, Sequences, FiniteSets, TLC

(***************************************************************************)
(* Bounds of the model.                                                    *)
(***************************************************************************)
MaxChildren == 2
MaxValues == 2
MaxDocLen == 4

(***************************************************************************)
(* The state.  Each specification of this module drives one group of       *)
(* variables and leaves the other groups idle.                             *)
(***************************************************************************)
\* SpecChoice
VARIABLES c_pc, c_interaction, c_correct, c_parsed, c_order, c_result

c_vars == <<c_pc, c_interaction, c_correct, c_parsed, c_order, c_result>>

\* SpecEnc
VARIABLES e_pc, e_fs, e_text, e_saved, e_bytes, e_encoding, e_i, e_attempts, e_root,
          e_result, e_moodle

e_vars == <<e_pc, e_fs, e_text, e_saved, e_bytes, e_encoding, e_i, e_attempts, e_root,
            e_result, e_moodle>>

\* SpecTree
VARIABLES t_pc, t_doc, t_order, t_k, t_sections, t_parts, t_result

t_vars == <<t_pc, t_doc, t_order, t_k, t_sections, t_parts, t_result>>

\* SpecBody
VARIABLES b_pc, b_body, b_feedbacks, b_built, b_fed, b_created

b_vars == <<b_pc, b_body, b_feedbacks, b_built, b_fed, b_created>>

\* SpecItem
VARIABLES q_pc, q_items, q_left, q_cur, q_how, q_root, q_parts, q_scan, q_acc, q_choices,
          q_responses, q_used, q_questions, q_skipped, q_result

q_vars == <<q_pc, q_items, q_left, q_cur, q_how, q_root, q_parts, q_scan, q_acc, q_choices,
            q_responses, q_used, q_questions, q_skipped, q_result>>

\* SpecPipe
VARIABLES p_pc, p_attempt_number, p_log, p_wait, p_call, p_qti, p_besser, p_moodle, p_raised

p_vars == <<p_pc, p_attempt_number, p_log, p_wait, p_call, p_qti, p_besser, p_moodle, p_raised>>

\* SpecUnknown
VARIABLES u_pc, u_level, u_elem, u_at, u_with, u_without

u_vars == <<u_pc, u_level, u_elem, u_at, u_with, u_without>>

\* SpecResponse
VARIABLES r_pc, r_elem, r_order, r_result

r_vars == <<r_pc, r_elem, r_order, r_result>>

\* SpecMeta
VARIABLES m_section, m_part, m_test, m_sets, m_call, m_exc

m_vars == <<m_section, m_part, m_test, m_sets, m_call, m_exc>>

\* SpecWalk
VARIABLES w_pc, w_doc, w_file, w_source, w_attempt, w_stack, w_visits, w_out

w_vars == <<w_pc, w_doc, w_file, w_source, w_attempt, w_stack, w_visits, w_out>>

\* SpecTwo
VARIABLES d_pc, d_doc, d_order, d_result

d_vars == <<d_pc, d_doc, d_order, d_result>>

\* SpecFeedback
VARIABLES f_pc, f_feedbacks, f_result

f_vars == <<f_pc, f_feedbacks, f_result>>

\* SpecMoodle
VARIABLES g_i, g_self, g_model, g_template, g_dir, g_file, g_code, g_exc

g_vars == <<g_i, g_self, g_model, g_template, g_dir, g_file, g_code, g_exc>>

vars == <<c_vars, e_vars, t_vars, b_vars, q_vars, p_vars, u_vars, r_vars, m_vars, w_vars, d_vars, f_vars, g_vars>>

c_others == <<e_vars, t_vars, b_vars, q_vars, p_vars, u_vars, r_vars, m_vars, w_vars, d_vars, f_vars, g_vars>>

e_others == <<c_vars, t_vars, b_vars, q_vars, p_vars, u_vars, r_vars, m_vars, w_vars, d_vars, f_vars, g_vars>>

t_others == <<c_vars, e_vars, b_vars, q_vars, p_vars, u_vars, r_vars, m_vars, w_vars, d_vars, f_vars, g_vars>>

b_others == <<c_vars, e_vars, t_vars, q_vars, p_vars, u_vars, r_vars, m_vars, w_vars, d_vars, f_vars, g_vars>>

q_others == <<c_vars, e_vars, t_vars, b_vars, p_vars, u_vars, r_vars, m_vars, w_vars, d_vars, f_vars, g_vars>>

p_others == <<c_vars, e_vars, t_vars, b_vars, q_vars, u_vars, r_vars, m_vars, w_vars, d_vars, f_vars, g_vars>>

u_others == <<c_vars, e_vars, t_vars, b_vars, q_vars, p_vars, r_vars, m_vars, w_vars, d_vars, f_vars, g_vars>>

r_others == <<c_vars, e_vars, t_vars, b_vars, q_vars, p_vars, u_vars, m_vars, w_vars, d_vars, f_vars, g_vars>>

m_others == <<c_vars, e_vars, t_vars, b_vars, q_vars, p_vars, u_vars, r_vars, w_vars, d_vars, f_vars, g_vars>>

w_others == <<c_vars, e_vars, t_vars, b_vars, q_vars, p_vars, u_vars, r_vars, m_vars, d_vars, f_vars, g_vars>>

d_others == <<c_vars, e_vars, t_vars, b_vars, q_vars, p_vars, u_vars, r_vars, m_vars, w_vars, f_vars, g_vars>>

f_others == <<c_vars, e_vars, t_vars, b_vars, q_vars, p_vars, u_vars, r_vars, m_vars, w_vars, d_vars, g_vars>>

g_others == <<c_vars, e_vars, t_vars, b_vars, q_vars, p_vars, u_vars, r_vars, m_vars, w_vars, d_vars, f_vars>>

(***************************************************************************)
(* Strings and optional values.                                            *)
(***************************************************************************)
None == {}

Some(v) == {v}

Get(o) == CHOOSE v \in o : TRUE

S(c) == <<c>>

UNDEFINED == <<"UNDEFINED">>

IsSpace(c) == c = " "

RECURSIVE LStrip(_)
LStrip(s) == IF s # <<>> /\ IsSpace(Head(s)) THEN LStrip(Tail(s)) ELSE s

RECURSIVE RStrip(_)
RStrip(s) ==
    IF s # <<>> /\ IsSpace(s[Len(s)]) THEN RStrip(SubSeq(s, 1, Len(s) - 1)) ELSE s

\* str.strip()
Strip(s) == RStrip(LStrip(s))

\* an XML element
El(tag, attrib, text, tail, children) ==
    [tag |-> tag, attrib |-> attrib, text |-> text, tail |-> tail, children |-> children]

\* elem.attrib.get(name, default)
AttribGet(elem, name, default) ==
    IF \E p \in elem.attrib : p[1] = name
    THEN (CHOOSE p \in elem.attrib : p[1] = name)[2]
    ELSE default

RECURSIVE Concat(_)
Concat(ss) == IF ss = <<>> THEN <<>> ELSE Head(ss) \o Concat(Tail(ss))

\* "".join(elem.itertext()): the text of elem and of its descendants, with
\* the tails of the descendants, in document order
RECURSIVE IterText(_)
IterText(elem) ==
    elem.text \o
    Concat([i \in 1 .. Len(elem.children) |->
                IterText(elem.children[i]) \o elem.children[i].tail])

\* the positions of the children of elem with the given tag
\* (child.tag.split('}')[-1] == tag: tags are modelled without namespace)
ChildrenWhere(elem, tag) == {i \in 1 .. Len(elem.children) : elem.children[i].tag = tag}

\* the members of a set of naturals in increasing order
RECURSIVE Sorted(_)
Sorted(T) ==
    IF T = {} THEN <<>>
    ELSE LET m == CHOOSE x \in T : \A y \in T : x <= y
         IN  <<m>> \o Sorted(T \ {m})

\* all sequences over U of length at most n
RECURSIVE SeqsUpTo(_, _)
SeqsUpTo(U, n) ==
    IF n = 0 THEN {<<>>}
    ELSE LET shorter == SeqsUpTo(U, n - 1)
         IN  shorter \cup {Append(s, u) : s \in {t \in shorter : Len(t) = n - 1}, u \in U}

\* the enumerations (iteration orders) of a finite set
Orders(T) ==
    {f \in [1 .. Cardinality(T) -> T] : \A i, j \in 1 .. Cardinality(T) : i # j => f[i] # f[j]}

Raise(e) == [exc |-> e, val |-> {}]

Return(v) == [exc |-> "none", val |-> v]

\* The names that qti_to_besser.py uses for the classes of the tree, at lines
\* 591, 627 and 694.  `from src.qti_to_lms.metamodel.qti import *` (line 5)
\* binds TestSection, TestPart and TestDefinition and none of these three, and
\* nothing else binds them.
UnboundNames == {"AssessmentSection", "AssessmentPart", "AssessmentDefinition"}

\* the evaluation of a global name of qti_to_besser.py.  A call Name(args...)
\* evaluates Name first: NameError leaves the function before any argument is
\* evaluated
NameLookup(name) == IF name \in UnboundNames THEN Raise("NameError") ELSE Return(name)

(***************************************************************************)
(* Metamodel objects (metamodel/qti.py).                                   *)
(***************************************************************************)
\* Choice(identifier, text)
Choice(oid, identifier, text) == [oid |-> oid, identifier |-> identifier, text |-> text]

\* ParagraphBlock(text=None, quote_blocks=None, inline_elements=None)
ParagraphBlock(oid, text, quote_blocks, inline_elements) ==
    [oid |-> oid, text |-> text, quote_blocks |-> quote_blocks,
     inline_elements |-> inline_elements]

\* Prompt(text=None, paragraphs=None)
Prompt(oid, text, paragraphs) == [oid |-> oid, text |-> text, paragraphs |-> paragraphs]

(***************************************************************************)
(* Choice interactions and correct responses.                              *)
(***************************************************************************)
\* build_choice: one Choice per simple-choice element, in order.  An entry of
\* simple_choices is [pos, el]: the element el, child number pos of the
\* interaction base; the Choice built from it has the identity base \o <<pos>>.
build_choice(simple_choices, base) ==
    [i \in 1 .. Len(simple_choices) |->
        Choice(Append(base, simple_choices[i].pos),
               AttribGet(simple_choices[i].el, "identifier", UNDEFINED),
               Strip(IterText(simple_choices[i].el)))]

\* the Prompt built from a qti-prompt child (lines 222-231): one
\* ParagraphBlock(text=...) per p grandchild, then set(paragraphs)
PromptOf(prompt_el, oid) ==
    LET ps == Sorted(ChildrenWhere(prompt_el, "p"))
    IN  Prompt(oid, None,
               Some({ParagraphBlock(Append(oid, ps[k]),
                                    Some(Strip(IterText(prompt_el.children[ps[k]]))),
                                    None, None) : k \in 1 .. Len(ps)}))

\* build_choice_interaction
build_choice_interaction(choice_interaction, base) ==
    LET sc == Sorted(ChildrenWhere(choice_interaction, "qti-simple-choice"))
        simple_choices == [k \in 1 .. Len(sc) |->
                              [pos |-> sc[k], el |-> choice_interaction.children[sc[k]]]]
        built == build_choice(simple_choices, base)
    IN  [choices |-> {built[k] : k \in 1 .. Len(built)},
         prompts |-> {PromptOf(choice_interaction.children[i], Append(base, i)) :
                         i \in ChildrenWhere(choice_interaction, "qti-prompt")},
         max_choices |-> AttribGet(choice_interaction, "max-choices", UNDEFINED),
         min_choices |-> AttribGet(choice_interaction, "min-choices", UNDEFINED)]

\* next((c for c in all_choices if c.identifier == choice_id), None), the set
\* all_choices being iterated in the order `order`
FirstMatch(order, choice_id) ==
    LET hits == {i \in 1 .. Len(order) : order[i].identifier = choice_id}
    IN  IF hits = {} THEN None
        ELSE Some(order[CHOOSE i \in hits : \A j \in hits : i <= j])

\* build_correct_choices that makes up a Choice for an identifier no declared
\* choice bears
build_correct_choices_fabricating(correct_response_elem, order) ==
    LET vs == Sorted(ChildrenWhere(correct_response_elem, "qti-value"))
        found(k) == FirstMatch(order, Strip(correct_response_elem.children[vs[k]].text))
    IN  IF \E k \in 1 .. Len(vs) : correct_response_elem.children[vs[k]].text = <<>>
        THEN Raise("AttributeError")
        ELSE Return(UNION {IF found(k) # None THEN found(k)
                           ELSE {Choice(<<0, k>>,
                                        Strip(correct_response_elem.children[vs[k]].text),
                                        <<>>)} : k \in 1 .. Len(vs)})

build_correct_choices_no_strip(correct_response_elem, order) ==
    LET vs == Sorted(ChildrenWhere(correct_response_elem, "qti-value"))
    IN  IF \E k \in 1 .. Len(vs) : correct_response_elem.children[vs[k]].text = <<>>
        THEN Raise("AttributeError")
        ELSE Return(UNION {FirstMatch(order, correct_response_elem.children[vs[k]].text) :
                              k \in 1 .. Len(vs)})

\* build_correct_choices(correct_response_elem, all_choices); order is the
\* iteration order of the set all_choices.  A qti-value without text has
\* text None, and None.strip() raises AttributeError.
build_correct_choices(correct_response_elem, order) ==
    LET vs == Sorted(ChildrenWhere(correct_response_elem, "qti-value"))
    IN  IF \E k \in 1 .. Len(vs) : correct_response_elem.children[vs[k]].text = <<>>
        THEN Raise("AttributeError")
        ELSE Return(UNION {FirstMatch(order, Strip(correct_response_elem.children[vs[k]].text)) :
                              k \in 1 .. Len(vs)})

(***************************************************************************)
(* SpecChoice: build_choice_interaction applied to one choice interaction, *)
(* then build_correct_choices applied to one correct-response element and  *)
(* the choices just built.                                                 *)
(***************************************************************************)

Leaf(tag, attrib, text) == El(tag, attrib, text, <<>>, <<>>)

ChoiceIds == {{}, {<<"identifier", S("A")>>}, {<<"identifier", S("B")>>}}

ChoiceTexts == {<<>>, S("x"), <<" ", "x">>}

\* the children a choice interaction is drawn from
InteractionChildren ==
    {Leaf("qti-simple-choice", a, t) : a \in ChoiceIds, t \in ChoiceTexts}
    \cup {Leaf("qti-unknown", {}, S("x"))}
    \cup {El("qti-prompt", {}, <<>>, <<>>, <<Leaf("p", {}, S("x")), Leaf("p", {}, <<>>)>>)}

\* the children a correct-response element is drawn from
CorrectChildren ==
    {Leaf("qti-value", {}, t) : t \in {<<>>, S("A"), <<" ", "A">>, S("C")}}
    \cup {Leaf("qti-unknown", {}, S("A"))}

c_Idle ==
    /\ c_pc = "idle"
    /\ c_interaction = El("qti-choice-interaction", {}, <<>>, <<>>, <<>>)
    /\ c_correct = El("qti-correct-response", {}, <<>>, <<>>, <<>>)
    /\ c_parsed = None
    /\ c_order = <<>>
    /\ c_result = None

c_Init ==
    /\ c_pc = "start"
    /\ c_interaction \in {El("qti-choice-interaction", {}, <<>>, <<>>, cs) :
                             cs \in SeqsUpTo(InteractionChildren, MaxChildren)}
    /\ c_correct \in {El("qti-correct-response", {}, <<>>, <<>>, vs) :
                         vs \in SeqsUpTo(CorrectChildren, MaxValues)}
    /\ c_parsed = None
    /\ c_order = <<>>
    /\ c_result = None

\* parsed = build_choice_interaction(child)
c_BuildInteraction ==
    /\ c_pc = "start"
    /\ c_parsed' = Some(build_choice_interaction(c_interaction, <<1>>))
    /\ c_pc' = "parsed"
    /\ UNCHANGED <<c_interaction, c_correct, c_order, c_result, c_others>>

\* correct_choices = build_correct_choices(child, choices)
c_BuildCorrect ==
    /\ c_pc = "parsed"
    /\ \E order \in Orders(Get(c_parsed).choices) :
          /\ c_order' = order
          /\ c_result' = Some(build_correct_choices(c_correct, order))
    /\ c_pc' = "done"
    /\ UNCHANGED <<c_interaction, c_correct, c_parsed, c_others>>

c_Next == c_BuildInteraction \/ c_BuildCorrect

(***************************************************************************)
(* Claims settled under SpecChoice.                                        *)
(***************************************************************************)
\* the positions of the simple-choice children of the interaction
c_SimpleChoices == ChildrenWhere(c_interaction, "qti-simple-choice")

\* the identifiers the correct-response element refers to: the trimmed text of
\* its qti-value children
c_Referenced ==
    {Strip(c_correct.children[i].text) :
        i \in ChildrenWhere(c_correct, "qti-value")}

c_Returned == c_pc = "done" /\ Get(c_result).exc = "none"

\* C2 as stated: whenever build_correct_choices returns, a declared choice is
\* in the result if and only if its identifier is referenced by a qti-value.
C2_ExactlyTheReferencedChoices ==
    c_Returned =>
        \A c \in Get(c_parsed).choices :
            c \in Get(c_result).val <=> c.identifier \in c_Referenced

\* C2 amended: whenever build_correct_choices returns, the result holds only
\* declared choices whose identifier is referenced, and exactly one choice for
\* every referenced identifier that some declared choice bears (so: if and
\* only if, when the declared identifiers are pairwise distinct).
C2_OneChoicePerReferencedIdentifier ==
    c_Returned =>
        /\ Get(c_result).val \subseteq Get(c_parsed).choices
        /\ \A c \in Get(c_result).val : c.identifier \in c_Referenced
        /\ \A id \in c_Referenced :
              (\E c \in Get(c_parsed).choices : c.identifier = id) =>
                  Cardinality({c \in Get(c_result).val : c.identifier = id}) = 1

\* C2 witness: referenced {A, C} against the choices {A, B} gives exactly {A}.
C2_Witness ==
    /\ c_Returned
    /\ c_Referenced = {S("A"), S("C")}
    /\ {c.identifier : c \in Get(c_parsed).choices} = {S("A"), S("B")}
    /\ {c.identifier : c \in Get(c_result).val} = {S("A")}
    /\ Cardinality(Get(c_result).val) = 1

c_Parsed == c_pc \in {"parsed", "done"}

\* C6: every simple-choice element yields exactly one Choice, whose text
\* equals the element's source text exactly (build_choice strips the text,
\* line 185).
C6_ChoiceTextVerbatim ==
    c_Parsed =>
        \A i \in c_SimpleChoices :
            Cardinality({c \in Get(c_parsed).choices :
                            /\ c.oid = <<1, i>>
                            /\ c.text = IterText(c_interaction.children[i])}) = 1

(***************************************************************************)
(* Reading the document: qti_to_besser, lines 655-681.                     *)
(*                                                                         *)
(* The text of a document is a str over DocSymbols; every symbol but       *)
(* "eacute" stands for a run of ASCII characters:                          *)
(*   "D8", "D16"   an XML declaration naming the encoding UTF-8 / UTF-16   *)
(*   "<r>", "</r>" the start and the end tag of the root element           *)
(*   "x"           a character of content                                  *)
(*   "eacute"      a character outside ASCII (U+00E9)                      *)
(*   "00"          U+0000, a character that no XML document may hold       *)
(* Decoding can also give "U+FFFE" and "U+FFFF" (no XML document may hold  *)
(* them either), "U+FEFF" (the byte order mark as a character) and "other" *)
(* (any other character outside ASCII, all of them legal in a document).   *)
(* A file is a sequence of bytes: an ASCII symbol is its own UTF-8 and     *)
(* Latin-1 byte (run), the other bytes are written in hexadecimal; in      *)
(* UTF-16 every character of a run is a unit with the high byte 00.        *)
(***************************************************************************)
DocSymbols == {"D8", "D16", "<r>", "</r>", "x", "eacute", "00"}

AsciiSymbols == {"D8", "D16", "<r>", "</r>", "x"}

\* str.encode: how an editor saves the text in an encoding ("utf-16" writes a
\* byte order mark and little-endian code units, as Python's codec does)
EncodeChar(c, enc) ==
    CASE enc = "utf-8"   -> IF c = "eacute" THEN <<"C3", "A9">> ELSE <<c>>
      [] enc = "utf-16"  -> IF c = "eacute" THEN <<"E9", "00">> ELSE <<c, "00">>
      [] enc = "latin-1" -> IF c = "eacute" THEN <<"E9">> ELSE <<c>>

Encode(text, enc) ==
    (IF enc = "utf-16" THEN <<"FF", "FE">> ELSE <<>>)
        \o Concat([i \in 1 .. Len(text) |-> EncodeChar(text[i], enc)])

\* the bytes of a file that are written in hexadecimal, by their part in
\* UTF-8: C3 starts a sequence of two bytes, E9 and EF one of three, A9 and BF
\* continue a sequence; FE and FF occur in no UTF-8 sequence
Utf8Length == [b \in {"C3", "E9", "EF"} |-> IF b = "C3" THEN 2 ELSE 3]

Utf8Continuation == {"A9", "BF"}

\* the strict UTF-8 decoder: an ASCII byte is a character; a lead byte with
\* the continuation bytes it asks for is one character (C3 A9 is "eacute",
\* EF BF BF is U+FFFF, E9 A9 A9 is U+9A69, some other character); anything
\* else is invalid
RECURSIVE DecodeUtf8(_)
DecodeUtf8(bytes) ==
    IF bytes = <<>> THEN Return(<<>>)
    ELSE IF Head(bytes) \in AsciiSymbols \cup {"00"}
         THEN LET rest == DecodeUtf8(Tail(bytes))
              IN  IF rest.exc # "none" THEN rest ELSE Return(<<Head(bytes)>> \o rest.val)
    ELSE IF Head(bytes) \in DOMAIN Utf8Length
         THEN LET n == Utf8Length[Head(bytes)] IN
              IF Len(bytes) >= n /\ \A k \in 2 .. n : bytes[k] \in Utf8Continuation
              THEN LET rest == DecodeUtf8(SubSeq(bytes, n + 1, Len(bytes)))
                       c == CASE SubSeq(bytes, 1, n) = <<"C3", "A9">> -> "eacute"
                              [] SubSeq(bytes, 1, n) = <<"EF", "BF", "BF">> -> "U+FFFF"
                              [] OTHER -> "other"
                   IN  IF rest.exc # "none" THEN rest ELSE Return(<<c>> \o rest.val)
              ELSE Raise("UnicodeError")
    ELSE Raise("UnicodeError")

\* UTF-16 code units, two bytes each, the low byte first ("little") or the
\* high byte first ("big"); the units FEFF, FFFE and FFFF are kept apart from
\* the other characters outside ASCII
RECURSIVE DecodeUnits16(_, _)
DecodeUnits16(bytes, byteorder) ==
    IF bytes = <<>> THEN Return(<<>>)
    ELSE IF Len(bytes) = 1 THEN Raise("UnicodeError")
    ELSE LET rest == DecodeUnits16(SubSeq(bytes, 3, Len(bytes)), byteorder)
             low == IF byteorder = "little" THEN bytes[1] ELSE bytes[2]
             high == IF byteorder = "little" THEN bytes[2] ELSE bytes[1]
             c == CASE high = "00" /\ low \in AsciiSymbols -> low
                    [] high = "00" /\ low = "E9" -> "eacute"
                    [] high = "00" /\ low = "00" -> "00"
                    [] high = "FE" /\ low = "FF" -> "U+FEFF"
                    [] high = "FF" /\ low = "FE" -> "U+FFFE"
                    [] high = "FF" /\ low = "FF" -> "U+FFFF"
                    [] OTHER -> "other"
         IN  IF rest.exc # "none" THEN rest ELSE Return(<<c>> \o rest.val)

\* the "utf-16" decoder of a text stream: a stream of no bytes is the empty
\* text; any other stream must start with a byte order mark, FF FE for
\* little-endian units and FE FF for big-endian ones ("UTF-16 stream does not
\* start with BOM" is a UnicodeError)
DecodeUtf16(bytes) ==
    IF bytes = <<>> THEN Return(<<>>)
    ELSE IF Len(bytes) >= 2 /\ bytes[1] = "FF" /\ bytes[2] = "FE"
    THEN DecodeUnits16(SubSeq(bytes, 3, Len(bytes)), "little")
    ELSE IF Len(bytes) >= 2 /\ bytes[1] = "FE" /\ bytes[2] = "FF"
    THEN DecodeUnits16(SubSeq(bytes, 3, Len(bytes)), "big")
    ELSE Raise("UnicodeError")

\* Latin-1 decodes every byte
DecodeLatin1(bytes) ==
    Return([i \in 1 .. Len(bytes) |->
               IF bytes[i] \in AsciiSymbols THEN bytes[i]
               ELSE IF bytes[i] = "E9" THEN "eacute"
               ELSE IF bytes[i] = "00" THEN "00" ELSE "other"])

\* the codec that open(xml_path, "r", encoding=enc) looks up for a name: the
\* lookup takes no account of the case of the letters
Codec(enc) ==
    CASE enc \in {"utf-8", "UTF-8"}   -> "utf-8"
      [] enc \in {"utf-16", "UTF-16"} -> "utf-16"
      [] enc = "latin-1"              -> "latin-1"

\* file.read() of open(xml_path, "r", encoding=enc)
Decode(bytes, enc) ==
    CASE Codec(enc) = "utf-8"   -> DecodeUtf8(bytes)
      [] Codec(enc) = "utf-16"  -> DecodeUtf16(bytes)
      [] Codec(enc) = "latin-1" -> DecodeLatin1(bytes)

\* the parser skips a byte order mark that is the first character of the text
SkipMark(text) == IF text # <<>> /\ text[1] = "U+FEFF" THEN Tail(text) ELSE text

HasDecl(text) == text # <<>> /\ text[1] \in {"D8", "D16"}

\* the tags of body[i], body[i+1], ... are balanced under one root element,
\* depth being the number of elements open before body[i]; characters occur
\* only inside the root and are characters of XML (U+0000, U+FFFE and U+FFFF
\* are none); nothing follows the root's end tag
RECURSIVE Balanced(_, _, _)
Balanced(body, i, depth) ==
    IF i > Len(body) THEN depth = 0 /\ Len(body) > 0
    ELSE CASE body[i] = "<r>" -> (depth > 0 \/ i = 1) /\ Balanced(body, i + 1, depth + 1)
           [] body[i] = "</r>" ->
                /\ depth > 0
                /\ (depth = 1 => i = Len(body))
                /\ Balanced(body, i + 1, depth - 1)
           [] body[i] \in {"x", "eacute", "other", "U+FEFF"} ->
                depth > 0 /\ Balanced(body, i + 1, depth)
           [] OTHER -> FALSE

\* well-formed: an optional byte order mark, an optional declaration, then one
\* root element
WellFormed(text) ==
    LET marked == SkipMark(text)
    IN  Balanced(IF HasDecl(marked) THEN Tail(marked) ELSE marked, 1, 0)

\* ET.parse(file) of a file opened in text mode: the parser gets the decoded
\* str, which it encodes as UTF-8 before handing it to expat; a declaration
\* naming UTF-16 then contradicts the bytes expat sees ("encoding specified in
\* XML declaration is incorrect", a ParseError)
ParseXml(text) ==
    IF WellFormed(text) /\ SkipMark(text)[1] # "D16"
    THEN Return("root") ELSE Raise("ParseError")

\* one pass of the loop body, lines 663-677: open, read and parse with enc.
\* fs is the state of the file: "ok", "missing" or "unreadable" (open fails
\* with an OSError)
ReadAttempt(fs, bytes, enc) ==
    IF fs # "ok" THEN Raise("OSError")
    ELSE LET decoded == Decode(bytes, enc)
         IN  IF decoded.exc # "none" THEN decoded ELSE ParseXml(decoded.val)

\* line 659: the names are compared as strings
tried_encodings(encoding) ==
    IF encoding # "utf-16" THEN <<encoding, "utf-16">> ELSE <<encoding, "utf-8">>

\* what the loop does after an attempt: break (line 669), continue with the
\* next encoding (lines 670-671) or return None (lines 672-677)
AfterAttempt(exc) ==
    CASE exc = "none" -> "break"
      [] exc = "UnicodeError" -> "continue"
      [] exc = "ParseError" -> "return None"
      [] exc = "OSError" -> "return None"

(***************************************************************************)
(* The Moodle step of run_qti_moodle_pipeline: qti_to_lms.py, lines 33-50, *)
(* and besser_to_moodle.py, lines 28-69.                                   *)
(***************************************************************************)
\* what the Moodle step did: whether MoodleGenerator was called, the
\* exception that left the pipeline, whether moodle.xml was written
NotGenerated == [invoked |-> FALSE, raised |-> "none", written |-> FALSE]

\* the parameters of MoodleGenerator.__init__ and the one without a default
MoodleGeneratorParams == {"assessment_def", "output_dir", "output_file_name"}

MoodleGeneratorRequired == {"assessment_def"}

\* MoodleGenerator(**kw), kw the set of keywords of the call
MoodleGenerator(kw) ==
    IF kw \subseteq MoodleGeneratorParams /\ MoodleGeneratorRequired \subseteq kw
    THEN Return("generator")
    ELSE Raise("TypeError")

\* `if besser_model:` with the Moodle step taken whatever the model is
GeneratesAlways(besser_model) == TRUE

\* `if besser_model:` (line 43): None is false, a TestDefinition is true
Generates(besser_model) == besser_model # "None"

\* lines 36-50, besser_model being what qti_to_besser gave: its exception
\* leaves run_qti_moodle_pipeline at line 36; otherwise the generator is built
\* with the keywords output_file_name and test_def, then generate() writes the
\* file
MoodleStep(besser_model) ==
    IF besser_model = "NameError"
    THEN [invoked |-> FALSE, raised |-> besser_model, written |-> FALSE]
    ELSE IF ~ Generates(besser_model) THEN NotGenerated
    ELSE LET moodle_generator == MoodleGenerator({"output_file_name", "test_def"})
         IN  IF moodle_generator.exc # "none"
             THEN [invoked |-> TRUE, raised |-> moodle_generator.exc, written |-> FALSE]
             ELSE [invoked |-> TRUE, raised |-> "none", written |-> TRUE]

(***************************************************************************)
(* SpecEnc: one call of qti_to_besser(xml_path, encoding) on a document    *)
(* without test parts.                                                     *)
(***************************************************************************)

\* the encodings a file is saved in
SavedEncodings == {"utf-8", "utf-16", "latin-1"}

\* the names a caller gives for the encoding: Python knows the codecs by the
\* lowercase names and by the uppercase ones that XML declarations use
Encodings == {"utf-8", "UTF-8", "utf-16", "UTF-16", "latin-1"}

e_Idle ==
    /\ e_pc = "idle"
    /\ e_fs = "missing"
    /\ e_text = <<>>
    /\ e_saved = "utf-8"
    /\ e_bytes = <<>>
    /\ e_encoding = "utf-8"
    /\ e_i = 0
    /\ e_attempts = <<>>
    /\ e_root = None
    /\ e_result = "pending"
    /\ e_moodle = NotGenerated

e_Init ==
    /\ e_pc = "start"
    /\ e_fs \in {"ok", "missing", "unreadable"}
    /\ e_text \in IF e_fs = "ok" THEN SeqsUpTo(DocSymbols, MaxDocLen) ELSE {<<"<r>", "</r>">>}
    /\ e_saved \in SavedEncodings
    /\ e_bytes = Encode(e_text, e_saved)
    /\ e_encoding \in Encodings
    /\ e_i = 0
    /\ e_attempts = <<>>
    /\ e_root = None
    /\ e_result = "pending"
    /\ e_moodle = NotGenerated

\* lines 655-660
e_CheckFile ==
    /\ e_pc = "start"
    /\ IF e_fs = "missing" \/ Len(e_bytes) = 0
       THEN e_result' = "None" /\ e_pc' = "done" /\ e_i' = e_i
       ELSE e_result' = e_result /\ e_pc' = "loop" /\ e_i' = 1
    /\ UNCHANGED <<e_fs, e_text, e_saved, e_bytes, e_encoding, e_attempts, e_root, e_moodle, e_others>>

\* lines 662-677: one iteration of the loop over tried_encodings
e_Attempt ==
    /\ e_pc = "loop"
    /\ e_i <= Len(tried_encodings(e_encoding))
    /\ LET enc == tried_encodings(e_encoding)[e_i]
           got == ReadAttempt(e_fs, e_bytes, enc)
           todo == AfterAttempt(got.exc)
       IN  /\ e_attempts' = Append(e_attempts, [enc |-> enc, outcome |-> got.exc])
           /\ e_root' = IF got.exc = "none" THEN Some(got.val) ELSE e_root
           /\ e_i' = IF todo = "continue" THEN e_i + 1 ELSE e_i
           /\ e_pc' = CASE todo = "break" -> "after"
                        [] todo = "return None" -> "done"
                        [] todo = "continue" ->
                             IF e_i + 1 <= Len(tried_encodings(e_encoding))
                             THEN "loop" ELSE "after"
           /\ e_result' = IF todo = "return None" THEN "None" ELSE e_result
    /\ UNCHANGED <<e_fs, e_text, e_saved, e_bytes, e_encoding, e_moodle, e_others>>

\* lines 679-704: without a root, return None; otherwise the children of the
\* root are gone through (the document has no test part) and line 694
\* evaluates the name AssessmentDefinition: e_result is "None" for the value
\* returned, or the name of the exception that leaves qti_to_besser
e_AfterLoop ==
    /\ e_pc = "after"
    /\ e_result' = IF e_root = None THEN "None"
                   ELSE NameLookup("AssessmentDefinition").exc
    /\ e_pc' = "done"
    /\ UNCHANGED <<e_fs, e_text, e_saved, e_bytes, e_encoding, e_i, e_attempts, e_root,
                   e_moodle, e_others>>

\* run_qti_moodle_pipeline, lines 36-50, after its call
\* qti_to_besser(xml_path=xml_path) has returned or raised
e_MoodleStep ==
    /\ e_pc = "done"
    /\ e_encoding = "utf-8"
    /\ e_moodle' = MoodleStep(e_result)
    /\ e_pc' = "end"
    /\ UNCHANGED <<e_fs, e_text, e_saved, e_bytes, e_encoding, e_i, e_attempts, e_root,
                   e_result, e_others>>

e_Next == e_CheckFile \/ e_Attempt \/ e_AfterLoop \/ e_MoodleStep

(***************************************************************************)
(* Paragraphs, the question body and the feedbacks: qti_to_besser.py,      *)
(* lines 129-167 and 247-418.                                              *)
(***************************************************************************)
\* p_elem.iter(): the element, then its descendants, in document order
RECURSIVE Preorder(_)
Preorder(elem) ==
    <<elem>> \o Concat([i \in 1 .. Len(elem.children) |-> Preorder(elem.children[i])])

\* an inline element of a paragraph: a str, or a TextEntryInteraction
InlineText(text) == [kind |-> "str", val |-> text]

TextEntryInteraction(identifier) == [kind |-> "TextEntryInteraction", val |-> identifier]

\* the loop of parse_paragraph over the nodes left, and the leftover text
RECURSIVE ParseNodes(_, _, _)
ParseNodes(nodes, inline_elements, current_text) ==
    IF nodes = <<>>
    THEN IF Strip(current_text) # <<>>
         THEN Append(inline_elements, InlineText(Strip(current_text)))
         ELSE inline_elements
    ELSE LET node == Head(nodes)
         IN  IF node.tag = "qti-text-entry-interaction"
             THEN LET flush == node.tail # <<>> \/ Strip(current_text) # <<>>
                      flushed == IF flush
                                 THEN Append(inline_elements,
                                             InlineText(Strip(current_text)))
                                 ELSE inline_elements
                      response_id == AttribGet(node, "response-identifier", UNDEFINED)
                  IN  ParseNodes(Tail(nodes),
                                 Append(flushed, TextEntryInteraction(response_id)),
                                 IF flush THEN <<>> ELSE current_text)
             ELSE ParseNodes(Tail(nodes), inline_elements,
                             current_text \o node.text \o node.tail)

parse_paragraph(p_elem) == ParseNodes(Preorder(p_elem), <<>>, <<>>)

BlockQuote(oid, paragraphs) == [oid |-> oid, paragraphs |-> paragraphs]

\* lines 331-343: the ParagraphBlock of a p child of the body
BodyParagraph(child, oid) ==
    LET inline_elements == parse_paragraph(child)
    IN  IF inline_elements # <<>>
        THEN ParagraphBlock(oid, None, None, Some(inline_elements))
        ELSE ParagraphBlock(oid, Some(Strip(IterText(child))), None, Some(<<>>))

\* lines 345-348 and 191-201: the ParagraphBlock of a pre child of the body
PreParagraph(child, oid) ==
    ParagraphBlock(oid, Some(<<"<pre>">> \o Strip(IterText(child)) \o <<"</pre>">>),
                   None, None)

\* lines 357-376: the ParagraphBlock of a p child of a blockquote
QuoteParagraph(p, oid) ==
    LET inline_elements == parse_paragraph(p)
        is_text_entry_only ==
            \A k \in 1 .. Len(inline_elements) :
                inline_elements[k].kind = "TextEntryInteraction"
    IN  ParagraphBlock(oid,
                       IF inline_elements = <<>> \/ is_text_entry_only
                       THEN Some(Strip(IterText(p))) ELSE None,
                       None, Some(inline_elements))

\* lines 354-384: the ParagraphBlock wrapping a blockquote
QuoteWrapper(quote, oid) ==
    LET ps == Sorted(ChildrenWhere(quote, "p"))
        pr_blocks == [k \in 1 .. Len(ps) |->
                         QuoteParagraph(quote.children[ps[k]], Append(oid, ps[k]))]
    IN  ParagraphBlock(oid, None, Some({BlockQuote(oid, pr_blocks)}), None)

\* build_extended_text_interaction: the prompts of the interaction
build_extended_text_interaction(child, base) ==
    {Prompt(Append(base, i), Some(Strip(IterText(child.children[i]))), None) :
        i \in ChildrenWhere(child, "qti-prompt")}

\* lines 321-325: the collections of build_question_body before its loop
EmptyBody ==
    [choices |-> {}, prompts |-> {}, paragraph_block_set |-> <<>>,
     max_choices |-> None, min_choices |-> None]

\* lines 395-402 with choices = parsed["choices"] in place of choices.update
MergeInteractionOverwriting(acc, parsed) ==
    [acc EXCEPT !.choices = parsed.choices,
                !.prompts = acc.prompts \cup parsed.prompts,
                !.max_choices = Some(parsed.max_choices),
                !.min_choices = Some(parsed.min_choices)]

\* lines 395-402: the result of build_choice_interaction goes into the
\* collections of the body
MergeInteraction(acc, parsed) ==
    [acc EXCEPT !.choices = acc.choices \cup parsed.choices,
                !.prompts = acc.prompts \cup parsed.prompts,
                !.max_choices = Some(parsed.max_choices),
                !.min_choices = Some(parsed.min_choices)]

\* lines 328-402: one iteration of the loop of build_question_body, for the
\* child with identity oid
BodyStep(acc, child, oid) ==
    CASE child.tag = "p" ->
           [acc EXCEPT !.paragraph_block_set = Append(@, BodyParagraph(child, oid))]
      [] child.tag = "pre" ->
           [acc EXCEPT !.paragraph_block_set = Append(@, PreParagraph(child, oid))]
      [] child.tag = "div" ->
           LET qs == Sorted(ChildrenWhere(child, "blockquote"))
           IN  [acc EXCEPT !.paragraph_block_set =
                   @ \o [k \in 1 .. Len(qs) |->
                            QuoteWrapper(child.children[qs[k]], Append(oid, qs[k]))]]
      [] child.tag = "qti-extended-text-interaction" ->
           [acc EXCEPT !.prompts = @ \cup build_extended_text_interaction(child, oid)]
      [] child.tag = "qti-choice-interaction" ->
           MergeInteraction(acc, build_choice_interaction(child, oid))
      [] OTHER -> acc

\* lines 404-416
QuestionBody(acc) ==
    [identifier |-> <<>>, prompts |-> acc.prompts, paragraphs |-> acc.paragraph_block_set,
     choices |-> acc.choices, max_choices |-> acc.max_choices,
     min_choices |-> acc.min_choices]

\* the loop of build_question_body from child i on
RECURSIVE ScanBody(_, _, _, _)
ScanBody(body, base, i, acc) ==
    IF i > Len(body.children) THEN acc
    ELSE ScanBody(body, base, i + 1, BodyStep(acc, body.children[i], Append(base, i)))

\* build_question_body(body), base being the identity of body; body is None
\* when the item has no qti-item-body, and iterating None raises TypeError
build_question_body(body, base) ==
    IF body = None THEN Raise("TypeError")
    ELSE LET acc == ScanBody(Get(body), base, 1, EmptyBody)
         IN  Return([body |-> QuestionBody(acc), choices |-> acc.choices])

\* the parameters of ModalFeedback.__init__ and those without a default
ModalFeedbackParams == {"identifier", "title", "data_extension", "is_hide", "paragraphs"}

ModalFeedbackRequired == {"identifier", "title"}

\* ModalFeedback(**kw): a keyword that is no parameter, or a call without
\* identifier or title, raises TypeError; a parameter left out has its default
\* (data_extension None, is_hide False, paragraphs None; a set of paragraphs is
\* handed over as Some(set), which keeps the empty set apart from None)
ModalFeedback(oid, kw) ==
    IF ~ (DOMAIN kw \subseteq ModalFeedbackParams) \/ ~ (ModalFeedbackRequired \subseteq DOMAIN kw)
    THEN Raise("TypeError")
    ELSE Return([oid |-> oid, identifier |-> kw.identifier, title |-> kw.title,
                 data_extension |-> IF "data_extension" \in DOMAIN kw
                                    THEN kw.data_extension ELSE None,
                 is_hide |-> IF "is_hide" \in DOMAIN kw THEN kw.is_hide ELSE FALSE,
                 paragraphs |-> IF "paragraphs" \in DOMAIN kw THEN kw.paragraphs ELSE None])

\* lines 146-155: the ParagraphBlocks added for one feedback element
FeedbackParagraphs(elem, oid) ==
    {ParagraphBlock(Append(oid, j), Some(Strip(IterText(elem.children[j]))), None,
                    Some(<<>>)) :
        j \in {i \in ChildrenWhere(elem, "p") : Strip(IterText(elem.children[i])) # <<>>}}

\* the loop of build_feedbacks from the k-th feedback on; an entry of
\* feedbacks is [oid, el].  Every ModalFeedback is given the one set
\* paragraph_block_set, so that all of them show its final content.
RECURSIVE FeedbackLoop(_, _, _, _)
FeedbackLoop(feedbacks, k, paragraph_block_set, feedback_set) ==
    IF k > Len(feedbacks)
    THEN [exc |-> "none",
          val |-> {[f EXCEPT !.paragraphs = Some(paragraph_block_set)] : f \in feedback_set},
          created |-> paragraph_block_set]
    ELSE LET elem == feedbacks[k].el
             show_hide == AttribGet(elem, "showHide", UNDEFINED)
             blocks == paragraph_block_set \cup FeedbackParagraphs(elem, feedbacks[k].oid)
             feedback == ModalFeedback(feedbacks[k].oid,
                            [identifier |-> AttribGet(elem, "identifier", UNDEFINED),
                             is_hidden |-> show_hide # S("show"),
                             paragraphs |-> Some(blocks),
                             title |-> <<>>,
                             data_extension |-> <<>>])
         IN  IF feedback.exc # "none"
             THEN [exc |-> feedback.exc, val |-> {}, created |-> blocks]
             ELSE FeedbackLoop(feedbacks, k + 1, blocks, feedback_set \cup {feedback.val})

\* build_feedbacks(feedbacks), feedbacks in the order of iteration: the result
\* [exc, val] and, as created, the ParagraphBlocks built on the way
build_feedbacks(feedbacks) == FeedbackLoop(feedbacks, 1, {}, {})

(***************************************************************************)
(* Response declarations and questions: qti_to_besser.py, lines 53-125 and *)
(* 421-566.                                                                *)
(***************************************************************************)
Answer(oid, text, score) == [oid |-> oid, text |-> text, score |-> score]

\* build_mapping with Answers that are equal when their key and value are
build_mapping_merging(mapping_elem, base) ==
    {Answer(base, AttribGet(mapping_elem.children[i], "map-key", <<>>),
            AttribGet(mapping_elem.children[i], "mapped-value", <<>>)) :
        i \in ChildrenWhere(mapping_elem, "qti-map-entry")}

\* build_mapping(mapping_elem)["answers"]: one Answer per qti-map-entry
build_mapping(mapping_elem, base) ==
    {Answer(Append(base, i), AttribGet(mapping_elem.children[i], "map-key", <<>>),
            AttribGet(mapping_elem.children[i], "mapped-value", <<>>)) :
        i \in ChildrenWhere(mapping_elem, "qti-map-entry")}

ResponseDeclaration(oid, identifier, cardinality, base_type, correct_choices, correct_answers) ==
    [oid |-> oid, identifier |-> identifier, cardinality |-> cardinality,
     base_type |-> base_type, correct_choices |-> correct_choices,
     correct_answers |-> correct_answers]

\* lines 100-123: the ResponseDeclaration of one element; the last
\* qti-correct-response child gives correct_choices, the qti-mapping children
\* add up to correct_answers
ResponseOf(elem, oid, order) ==
    LET crs == Sorted(ChildrenWhere(elem, "qti-correct-response"))
        built == [k \in 1 .. Len(crs) |-> build_correct_choices(elem.children[crs[k]], order)]
        answers == UNION {build_mapping(elem.children[i], Append(oid, i)) :
                             i \in ChildrenWhere(elem, "qti-mapping")}
    IN  IF \E k \in 1 .. Len(crs) : built[k].exc # "none"
        THEN Raise("AttributeError")
        ELSE Return(ResponseDeclaration(oid, AttribGet(elem, "identifier", UNDEFINED),
                                        AttribGet(elem, "cardinality", UNDEFINED),
                                        AttribGet(elem, "base-type", UNDEFINED),
                                        IF crs = <<>> THEN {} ELSE built[Len(crs)].val,
                                        answers))

\* build_response_declaration(response_elems, choices): response_elems is a
\* set of [oid, el], order the iteration order of the set choices
build_response_declaration(response_elems, order) ==
    LET built == {ResponseOf(r.el, r.oid, order) : r \in response_elems}
    IN  IF \E b \in built : b.exc # "none"
        THEN Raise("AttributeError")
        ELSE Return({b.val : b \in built})

Question(oid, identifier, title, body, responses, feedbacks, language, adaptive, time_dependent) ==
    [oid |-> oid, identifier |-> identifier, title |-> title, body |-> body,
     responses |-> responses, feedbacks |-> feedbacks, language |-> language,
     adaptive |-> adaptive, time_dependent |-> time_dependent]

\* question.attrib.get("href"); None and "" are both false in `if href:`
Href(question) == AttribGet(question, "href", <<>>)

\* lines 441-449 and 505-509: where the children of an item are read from.
\* An item is [el, file]: the element of the section and, for an href, what
\* is found at base_path/href: file.state is "absent", "malformed" (not
\* well-formed XML) or "ok", and file.root the root element of an "ok" file.
Resolve(item) ==
    CASE Href(item.el) = <<>> -> [how |-> "embedded", root |-> Some(item.el)]
      [] item.file.state = "absent" -> [how |-> "File not found", root |-> None]
      [] item.file.state = "malformed" -> [how |-> "ParseError", root |-> None]
      [] OTHER -> [how |-> "href", root |-> Some(item.file.root)]

\* lines 455-473 and 518-535: the children of the item by kind; body is the
\* last qti-item-body child, None without one
Partition(root, base) ==
    LET bodies == Sorted(ChildrenWhere(root, "qti-item-body"))
        Elems(tag) == {[oid |-> Append(base, i), el |-> root.children[i]] :
                          i \in ChildrenWhere(root, tag)}
    IN  [response_set |-> Elems("qti-response-declaration"),
         feedback_set |-> Elems("qti-modal-feedback"),
         body |-> IF bodies = <<>> THEN None
                  ELSE Some([oid |-> Append(base, bodies[Len(bodies)]),
                             el |-> root.children[bodies[Len(bodies)]]])]

\* the except clauses of the two paths (lines 500-501 and 563-564)
Caught(how, exc) ==
    IF how = "href" THEN exc = "ParseError"
    ELSE exc \in {"ParseError", "AttributeError"}

(***************************************************************************)
(* Parts, sections and the definition: metamodel/qti.py and                *)
(* qti_to_besser.py, lines 571-639 and 683-704.                            *)
(***************************************************************************)
\* len(titles) != len(set(titles)) for the titles of a set of objects
SameTitleTwice(objs) == \E a, b \in objs : a # b /\ a.title = b.title

\* TestSection.__init__ (metamodel/qti.py): plain assignments
TestSection(oid, identifier, title, questions) ==
    [oid |-> oid, identifier |-> identifier, title |-> title, questions |-> questions]

\* TestPart.__init__: the sections setter raises before the object exists
TestPart(oid, identifier, title, sections, navigation_mode, submission_mode) ==
    IF SameTitleTwice(sections)
    THEN Raise("ValueError")
    ELSE Return([oid |-> oid, identifier |-> identifier, title |-> title,
                 sections |-> sections, navigation_mode |-> navigation_mode,
                 submission_mode |-> submission_mode])

TestDefinition_unchecked(identifier, title, parts) ==
    Return([identifier |-> identifier, title |-> title, parts |-> parts])

\* TestDefinition.__init__: the parts setter raises before the object exists
TestDefinition(identifier, title, parts) ==
    IF SameTitleTwice(parts)
    THEN Raise("ValueError")
    ELSE Return([identifier |-> identifier, title |-> title, parts |-> parts])

\* lines 622-625: the qti-assessment-section children of the part at position
\* p of the root, each with its identity
SectionElems(part, p) ==
    {[oid |-> <<p, j>>, el |-> part.children[j]] :
        j \in ChildrenWhere(part, "qti-assessment-section")}

\* lines 586-589: the item and item-ref children of a section, each with its
\* identity, base being the identity of the section
ItemElems(section, base) ==
    {[oid |-> Append(base, j), el |-> section.children[j]] :
        j \in ChildrenWhere(section, "qti-assessment-item-ref")
               \cup ChildrenWhere(section, "qti-assessment-item")}

\* lines 571-604.  The def statement evaluates its return annotation,
\* set[AssessmentSection], when it is executed (line 571): the name is
\* unbound, the statement raises NameError and build_assessment_sections is
\* never bound, so that every call raises NameError, whatever its argument.
\* The body, were it reached: without section the loop is not entered and
\* the empty set is returned; with one, the children of the first section
\* taken are gone through and the name AssessmentSection is looked up (line
\* 591)
build_assessment_sections(assessment_sections) ==
    LET annotation == NameLookup("AssessmentSection") IN
    IF annotation.exc # "none" THEN annotation
    ELSE IF assessment_sections = {} THEN Return({})
    ELSE NameLookup("AssessmentSection")

\* lines 608-639.  The def statement evaluates its return annotation,
\* set[AssessmentPart] (line 608): NameError, and build_assessment_parts is
\* never bound.  The body, were it reached: without part the empty set is
\* returned; with one, the sections of the first part taken are collected
\* and the name AssessmentPart is looked up (line 627)
build_assessment_parts(assessment_parts) ==
    LET annotation == NameLookup("AssessmentPart") IN
    IF annotation.exc # "none" THEN annotation
    ELSE IF assessment_parts = {} THEN Return({})
    ELSE NameLookup("AssessmentPart")

\* lines 683-704 for a parsed root: the parts are collected and the name
\* AssessmentDefinition is looked up (line 694), before any argument of the
\* call is evaluated
TreeOf(root) == NameLookup("AssessmentDefinition")

(***************************************************************************)
(* SpecTree: the builders of the tree, each called on its own for a        *)
(* document of parts and sections without items: qti_to_besser from the    *)
(* parsed root on (lines 683-704), build_assessment_parts on the parts of  *)
(* the root (lines 608-639), build_assessment_sections on the sections of  *)
(* a part (lines 571-604); and the constructors of metamodel/qti.py called *)
(* with the titles of the parts and sections of the document.              *)
(***************************************************************************)
MaxParts == 2
MaxSections == 2

TitleAttribs(titles) == {{}} \cup {{<<"title", S(t)>>} : t \in titles}

TreeSections == {Leaf("qti-assessment-section", a, <<>>) : a \in TitleAttribs({"S"})}

TreeParts ==
    {El("qti-test-part", a, <<>>, <<>>, <<Leaf("qti-unknown", {}, <<>>)>> \o ss) :
        a \in TitleAttribs({"A"}), ss \in SeqsUpTo(TreeSections, MaxSections)}

TreeDocs ==
    {El("qti-assessment-test", {}, <<>>, <<>>,
        <<Leaf("qti-outcome-declaration", {}, <<>>)>> \o ps) :
        ps \in SeqsUpTo(TreeParts, MaxParts)}

\* what is called: qti_to_besser, build_assessment_parts,
\* build_assessment_sections, or the constructors of the metamodel
TreeEntries == {"start", "parts", "sections", "metamodel"}

t_Idle ==
    /\ t_pc = "idle"
    /\ t_doc = El("qti-assessment-test", {}, <<>>, <<>>, <<>>)
    /\ t_order = <<>>
    /\ t_k = 0
    /\ t_sections = {}
    /\ t_parts = {}
    /\ t_result = None

\* t_order is the order in which the set of parts handed over is gone
\* through, t_sections the set of sections handed over
t_Init ==
    /\ t_pc \in TreeEntries
    /\ t_doc \in TreeDocs
    /\ t_order \in IF t_pc \in {"parts", "metamodel"}
                   THEN Orders(ChildrenWhere(t_doc, "qti-test-part"))
                   ELSE {<<>>}
    /\ t_k = 1
    /\ t_sections \in IF t_pc = "sections"
                      THEN {{}} \cup {SectionElems(t_doc.children[p], p) :
                                         p \in ChildrenWhere(t_doc, "qti-test-part")}
                      ELSE {{}}
    /\ t_parts = {}
    /\ t_result = None

\* lines 683-692: the qti-test-part children of the root go into the set
\* assessment_parts, kept here by their positions in document order; the set
\* is never gone through
t_CollectParts ==
    /\ t_pc = "start"
    /\ t_order' = Sorted(ChildrenWhere(t_doc, "qti-test-part"))
    /\ t_pc' = "definition"
    /\ UNCHANGED <<t_doc, t_k, t_sections, t_parts, t_result, t_others>>

\* line 694: the name AssessmentDefinition is looked up before the arguments
\* of the call, build_assessment_parts among them, are evaluated
t_BuildDefinition ==
    /\ t_pc = "definition"
    /\ t_result' = Some(TreeOf(t_doc))
    /\ t_pc' = "done"
    /\ UNCHANGED <<t_doc, t_order, t_k, t_sections, t_parts, t_others>>

\* lines 608-639: build_assessment_parts on the set of parts, none of them
\* included; no part is taken and no section collected
t_BuildParts ==
    /\ t_pc = "parts"
    /\ t_result' = Some(build_assessment_parts({t_order[k] : k \in 1 .. Len(t_order)}))
    /\ t_pc' = "parts done"
    /\ UNCHANGED <<t_doc, t_order, t_k, t_sections, t_parts, t_others>>

\* lines 571-604: build_assessment_sections on the set of sections
t_BuildSections ==
    /\ t_pc = "sections"
    /\ t_result' = Some(build_assessment_sections(t_sections))
    /\ t_pc' = "sections done"
    /\ UNCHANGED <<t_doc, t_order, t_k, t_sections, t_parts, t_others>>

\* TestPart(...) of metamodel/qti.py for the next part of the document, its
\* sections being TestSection objects for its own section elements
t_NewPart ==
    /\ t_pc = "metamodel"
    /\ t_k <= Len(t_order)
    /\ LET p == t_order[t_k]
           part == t_doc.children[p]
           sections == {TestSection(s.oid, AttribGet(s.el, "identifier", UNDEFINED),
                                    AttribGet(s.el, "title", UNDEFINED), {}) :
                           s \in SectionElems(part, p)}
           tp_obj == TestPart(<<p>>, AttribGet(part, "identifier", UNDEFINED),
                              AttribGet(part, "title", UNDEFINED), sections,
                              AttribGet(part, "navigation-mode", UNDEFINED),
                              AttribGet(part, "submission-mode", UNDEFINED))
       IN  IF tp_obj.exc # "none"
           THEN /\ t_result' = Some(tp_obj)
                /\ t_pc' = "constructed"
                /\ UNCHANGED <<t_parts, t_k>>
           ELSE /\ t_parts' = t_parts \cup {tp_obj.val}
                /\ t_k' = t_k + 1
                /\ UNCHANGED <<t_pc, t_result>>
    /\ UNCHANGED <<t_doc, t_order, t_sections, t_others>>

\* TestDefinition(...) of metamodel/qti.py for the parts constructed
t_NewDefinition ==
    /\ t_pc = "metamodel"
    /\ t_k > Len(t_order)
    /\ t_result' = Some(TestDefinition(AttribGet(t_doc, "identifier", UNDEFINED),
                                       AttribGet(t_doc, "title", UNDEFINED), t_parts))
    /\ t_pc' = "constructed"
    /\ UNCHANGED <<t_doc, t_order, t_k, t_sections, t_parts, t_others>>

t_Next ==
    \/ t_CollectParts
    \/ t_BuildDefinition
    \/ t_BuildParts
    \/ t_BuildSections
    \/ t_NewPart
    \/ t_NewDefinition

(***************************************************************************)
(* SpecBody: build_question_body applied to one item body, then            *)
(* build_feedbacks applied to the modal feedbacks of the item.             *)
(***************************************************************************)
MaxBodyLen == 2

\* what a paragraph may hold besides its own text
InlineChildren ==
    {El("qti-text-entry-interaction", {<<"response-identifier", S("R")>>}, text, tail, <<>>) :
        text \in {<<>>, S("y")}, tail \in {<<>>, S("z")}}
    \cup {Leaf("b", {}, S("w"))}

Paragraphs ==
    {El("p", {}, text, <<>>, cs) :
        text \in {<<>>, S("x")}, cs \in {<<>>} \cup {<<c>> : c \in InlineChildren}}
    \cup {Leaf("p", {}, <<" ">>)}

PlainParagraphs == {p \in Paragraphs : p.children = <<>>}

BodyChildren ==
    Paragraphs
    \cup {El("p", {}, <<>>, S("t"), <<>>)}
    \cup {Leaf("pre", {}, text) : text \in {<<>>, <<" ", "x">>}}
    \cup {El("div", {}, <<>>, <<>>,
             <<El("blockquote", {}, <<>>, <<>>, ps), Leaf("p", {}, S("x"))>>) :
             ps \in {<<>>} \cup {<<p>> : p \in Paragraphs}}
    \cup {El("qti-choice-interaction", {}, <<>>, <<>>,
             <<El("qti-prompt", {}, <<>>, <<>>, <<p, Leaf("b", {}, S("x"))>>)>>) :
             p \in PlainParagraphs}
    \cup {El("qti-extended-text-interaction", {}, <<>>, <<>>,
             <<Leaf("qti-prompt", {}, S("x"))>>)}
    \cup {Leaf("qti-unknown", {}, S("x"))}
    \cup {El("div", {}, <<>>, <<>>,
             <<El("blockquote", {}, <<>>, <<>>,
                  <<Leaf("p", {}, S("x")), Leaf("p", {}, S("y"))>>)>>)}
    \cup {El("qti-choice-interaction", {}, <<>>, <<>>,
             <<El("qti-prompt", {}, <<>>, <<>>,
                  <<Leaf("p", {}, S("x")), Leaf("p", {}, S("y"))>>)>>)}

Feedbacks ==
    {El("qti-modal-feedback", a, <<>>, <<>>,
        <<Leaf("p", {}, <<>>), Leaf("p", {}, S("x")), Leaf("div", {}, S("x"))>>) :
        a \in {{}, {<<"identifier", S("F")>>, <<"showHide", S("show")>>}}}

b_Idle ==
    /\ b_pc = "idle"
    /\ b_body = El("qti-item-body", {}, <<>>, <<>>, <<>>)
    /\ b_feedbacks = <<>>
    /\ b_built = None
    /\ b_fed = None
    /\ b_created = {}

b_Init ==
    /\ b_pc = "start"
    /\ b_body \in {El("qti-item-body", {}, <<>>, <<>>, cs) :
                      cs \in SeqsUpTo(BodyChildren, MaxBodyLen)}
    /\ b_feedbacks \in {<<>>} \cup {<<f>> : f \in Feedbacks}
    /\ b_built = None
    /\ b_fed = None
    /\ b_created = {}

\* every ParagraphBlock of a question body: those of the body itself, those
\* inside their block quotes, and those of the prompts
BlocksOf(body) ==
    LET top == {body.paragraphs[k] : k \in 1 .. Len(body.paragraphs)}
        quotes == UNION {Get(pb.quote_blocks) : pb \in {x \in top : x.quote_blocks # None}}
    IN  top
        \cup UNION {{bq.paragraphs[k] : k \in 1 .. Len(bq.paragraphs)} : bq \in quotes}
        \cup UNION {Get(pr.paragraphs) : pr \in {x \in body.prompts : x.paragraphs # None}}

\* body, choices = build_question_body(body)
b_BuildBody ==
    /\ b_pc = "start"
    /\ LET got == build_question_body(Some(b_body), <<1>>)
       IN  /\ b_built' = Some(got)
           /\ b_created' = b_created \cup BlocksOf(got.val.body)
    /\ b_pc' = "body"
    /\ UNCHANGED <<b_body, b_feedbacks, b_fed, b_others>>

\* feedbacks = build_feedbacks(feedback_set)
b_BuildFeedbacks ==
    /\ b_pc = "body"
    /\ LET got == build_feedbacks([k \in 1 .. Len(b_feedbacks) |->
                                      [oid |-> <<1 + k>>, el |-> b_feedbacks[k]]])
       IN  /\ b_fed' = Some([exc |-> got.exc, val |-> got.val])
           /\ b_created' = b_created \cup got.created
    /\ b_pc' = "done"
    /\ UNCHANGED <<b_body, b_feedbacks, b_built, b_others>>

b_Next == b_BuildBody \/ b_BuildFeedbacks

(***************************************************************************)
(* SpecItem: build_questions applied to the items of one section, step by  *)
(* step (lines 421-566).                                                   *)
(***************************************************************************)
MaxItems == 2

Value(text) == Leaf("qti-value", {}, text)

ItemChoices ==
    {Leaf("qti-simple-choice", {<<"identifier", S("A")>>}, S("x")),
     Leaf("qti-simple-choice", {<<"identifier", S("B")>>}, <<>>)}

Interaction(cs) == El("qti-choice-interaction", {}, <<>>, <<>>, cs)

ItemBody(cs) == El("qti-item-body", {}, <<>>, <<>>, cs)

Declaration(vs) ==
    El("qti-response-declaration", {<<"identifier", S("RESPONSE")>>}, <<>>, <<>>,
       <<El("qti-correct-response", {}, <<>>, <<>>, vs)>>)

\* the sequences of two members of U at most
UpToTwo(U) == {<<>>} \cup {<<a>> : a \in U} \cup {<<a, b>> : a, b \in U}

\* the children of an item with one response declaration at most and a body
\* of two choice interactions at most
RichContents ==
    LET interactions == {Interaction(cs) : cs \in UpToTwo(ItemChoices)}
        bodies == {ItemBody(cs) : cs \in UpToTwo(interactions)}
        declarations ==
            {Declaration(vs) :
                vs \in UpToTwo({Value(S("A")), Value(S("B")), Value(<<" ", "C">>),
                                Value(<<>>)})}
            \cup {Leaf("qti-response-declaration", {}, <<>>)}
    IN  {<<b>> : b \in bodies} \cup {<<d, b>> : d \in declarations, b \in bodies}

\* the children of an item with one response declaration whose correct
\* response is the choice A, a body of one choice interaction with the choices
\* A and B, and one modal feedback with showHide="show"
ShownFeedbackContents ==
    <<Declaration(<<Value(S("A"))>>),
      ItemBody(<<Interaction(<<CHOOSE c \in ItemChoices : c.text # <<>>,
                               CHOOSE c \in ItemChoices : c.text = <<>> >>)>>),
      CHOOSE f \in Feedbacks : f.attrib # {}>>

\* the children of the items of a section of several items
ThinContents ==
    LET two == ItemBody(<<Interaction(<<CHOOSE c \in ItemChoices : c.text # <<>> >>),
                          Leaf("qti-unknown", {}, <<>>),
                          Interaction(<<CHOOSE c \in ItemChoices : c.text = <<>> >>)>>)
        declarations == {Declaration(<<Value(S("A")), Value(S("C"))>>),
                         Declaration(<<Value(<<>>)>>)}
    IN  {<<d>> : d \in declarations} \cup {<<d, two>> : d \in declarations}
        \cup {<<two, CHOOSE f \in Feedbacks : f.attrib # {}>>}
        \cup {ShownFeedbackContents}

NoFile == [state |-> "absent", root |-> El("qti-assessment-item", {}, <<>>, <<>>, <<>>)]

ItemRef(attrib) == El("qti-assessment-item-ref", attrib, <<>>, <<>>, <<>>)

\* an item with the given children, embedded in the section or in a file of
\* its own
ItemsOf(contents) ==
    {[el |-> El("qti-assessment-item", {<<"identifier", S("Q")>>}, <<>>, <<>>, cs),
      file |-> NoFile] : cs \in contents}
    \cup {[el |-> ItemRef({<<"identifier", S("Q")>>, <<"href", S("q.xml")>>}),
           file |-> [state |-> "ok",
                     root |-> El("qti-assessment-item", {<<"identifier", S("X")>>},
                                 <<>>, <<>>, cs)]] : cs \in contents}

\* a section of two items of one content: the item embedded in the section,
\* and a reference, by the item's identifier or by one of its own, to a file
\* holding the same qti-assessment-item element
TwinsOf(contents) ==
    {<<[el |-> item, file |-> NoFile],
       [el |-> ItemRef({<<"identifier", S(id)>>, <<"href", S("q.xml")>>}),
        file |-> [state |-> "ok", root |-> item]]>> :
        item \in {El("qti-assessment-item", {<<"identifier", S("Q")>>}, <<>>, <<>>, cs) :
                     cs \in contents},
        id \in {"Q", "R"}}

\* references to a file that is absent or not well-formed, and a reference
\* without href
BrokenRefs ==
    {[el |-> ItemRef({<<"identifier", S("Q")>>, <<"href", S("q.xml")>>}),
      file |-> [NoFile EXCEPT !.state = st]] : st \in {"absent", "malformed"}}
    \cup {[el |-> ItemRef({<<"identifier", S("Q")>>}), file |-> NoFile]}

q_Idle ==
    /\ q_pc = "idle"
    /\ q_items = <<>>
    /\ q_left = {}
    /\ q_cur = 0
    /\ q_how = "none"
    /\ q_root = None
    /\ q_parts = None
    /\ q_scan = 0
    /\ q_acc = EmptyBody
    /\ q_choices = None
    /\ q_responses = None
    /\ q_used = {}
    /\ q_questions = {}
    /\ q_skipped = {}
    /\ q_result = None

q_Init ==
    /\ q_pc = "loop"
    /\ q_items \in {<<i>> : i \in ItemsOf(RichContents)}
                   \cup SeqsUpTo(ItemsOf(ThinContents) \cup BrokenRefs, MaxItems)
                   \cup TwinsOf(ThinContents)
    /\ q_left = 1 .. Len(q_items)
    /\ q_cur = 0
    /\ q_how = "none"
    /\ q_root = None
    /\ q_parts = None
    /\ q_scan = 0
    /\ q_acc = EmptyBody
    /\ q_choices = None
    /\ q_responses = None
    /\ q_used = {}
    /\ q_questions = {}
    /\ q_skipped = {}
    /\ q_result = None

\* an exception raised while the current item is built: caught by the except
\* clause of its path, the item is skipped; otherwise it leaves build_questions
\* and, no caller handling it, qti_to_besser
q_Handle(exc) ==
    IF Caught(q_how, exc)
    THEN /\ q_skipped' = q_skipped \cup {[item |-> q_cur, why |-> exc]}
         /\ q_pc' = "loop"
         /\ q_result' = q_result
    ELSE /\ q_skipped' = q_skipped
         /\ q_pc' = "done"
         /\ q_result' = Some(Raise(exc))

\* lines 434-449 and 503-509: the next item of the set questions
q_NextItem ==
    /\ q_pc = "loop"
    /\ \E i \in q_left :
          LET found == Resolve(q_items[i])
          IN  /\ q_left' = q_left \ {i}
              /\ q_cur' = i
              /\ q_how' = found.how
              /\ q_root' = found.root
              /\ IF found.root = None
                 THEN /\ q_skipped' = q_skipped \cup {[item |-> i, why |-> found.how]}
                      /\ q_pc' = "loop"
                 ELSE /\ q_skipped' = q_skipped
                      /\ q_pc' = "partition"
    /\ UNCHANGED <<q_items, q_parts, q_scan, q_acc, q_choices, q_responses, q_used,
                   q_questions, q_result, q_others>>

\* lines 449-473 and 512-535, then lines 321-325 of build_question_body
q_Partition ==
    /\ q_pc = "partition"
    /\ q_parts' = Some(Partition(Get(q_root), <<q_cur>>))
    /\ q_scan' = 0
    /\ q_acc' = EmptyBody
    /\ q_choices' = None
    /\ q_responses' = None
    /\ q_pc' = "body"
    /\ UNCHANGED <<q_items, q_left, q_cur, q_how, q_root, q_used, q_questions, q_skipped,
                   q_result, q_others>>

\* lines 327-402: one iteration of the loop of build_question_body; without
\* a body the loop raises TypeError
q_ScanBody ==
    /\ q_pc = "body"
    /\ LET body == Get(q_parts).body
       IN  IF body = None
           THEN /\ q_Handle("TypeError")
                /\ UNCHANGED <<q_scan, q_acc>>
           ELSE /\ q_scan < Len(Get(body).el.children)
                /\ q_acc' = BodyStep(q_acc, Get(body).el.children[q_scan + 1],
                                     Append(Get(body).oid, q_scan + 1))
                /\ q_scan' = q_scan + 1
                /\ UNCHANGED <<q_pc, q_skipped, q_result>>
    /\ UNCHANGED <<q_items, q_left, q_cur, q_how, q_root, q_parts, q_choices, q_responses,
                   q_used, q_questions, q_others>>

\* lines 404-418: the loop is over, build_question_body returns body, choices
q_ReturnBody ==
    /\ q_pc = "body"
    /\ Get(q_parts).body # None
    /\ q_scan = Len(Get(Get(q_parts).body).el.children)
    /\ q_choices' = Some(q_acc.choices)
    /\ q_pc' = "responses"
    /\ UNCHANGED <<q_items, q_left, q_cur, q_how, q_root, q_parts, q_scan, q_acc,
                   q_responses, q_used, q_questions, q_skipped, q_result, q_others>>

\* lines 481 and 544: responses = build_response_declaration(response_set,
\* choices)
q_BuildResponses ==
    /\ q_pc = "responses"
    /\ \E order \in Orders(Get(q_choices)) :
          LET responses == build_response_declaration(Get(q_parts).response_set, order)
          IN  IF responses.exc # "none"
              THEN /\ q_Handle(responses.exc)
                   /\ UNCHANGED q_responses
              ELSE /\ q_responses' = Some(responses.val)
                   /\ q_pc' = "question"
                   /\ UNCHANGED <<q_skipped, q_result>>
    /\ q_used' = q_used \cup {[item |-> q_cur, choices |-> Get(q_choices),
                              scanned |-> q_scan]}
    /\ UNCHANGED <<q_items, q_left, q_cur, q_how, q_root, q_parts, q_scan, q_acc,
                   q_choices, q_questions, q_others>>

\* lines 483-497 and 547-561: the Question, its feedbacks built on the way
q_BuildQuestion ==
    /\ q_pc = "question"
    /\ \E feedbacks \in Orders(Get(q_parts).feedback_set) :
          LET root == Get(q_root)
              identifier == AttribGet(q_items[q_cur].el, "identifier", UNDEFINED)
              built == build_feedbacks(feedbacks)
              q_obj == Question(<<q_cur>>, identifier, AttribGet(root, "title", identifier),
                                QuestionBody(q_acc), Get(q_responses), built.val,
                                AttribGet(root, "xml:lang", S("en")),
                                AttribGet(root, "adaptive", None),
                                AttribGet(root, "time-dependent", None))
          IN  IF built.exc # "none"
              THEN /\ q_Handle(built.exc)
                   /\ UNCHANGED q_questions
              ELSE /\ q_questions' = q_questions \cup {q_obj}
                   /\ q_pc' = "loop"
                   /\ UNCHANGED <<q_skipped, q_result>>
    /\ UNCHANGED <<q_items, q_left, q_cur, q_how, q_root, q_parts, q_scan, q_acc,
                   q_choices, q_responses, q_used, q_others>>

\* line 566: the loop is over, build_questions returns the set of questions
q_Return ==
    /\ q_pc = "loop"
    /\ q_left = {}
    /\ q_result' = Some(Return(q_questions))
    /\ q_pc' = "done"
    /\ UNCHANGED <<q_items, q_left, q_cur, q_how, q_root, q_parts, q_scan, q_acc,
                   q_choices, q_responses, q_used, q_questions, q_skipped, q_others>>

q_Next ==
    \/ q_NextItem
    \/ q_Partition
    \/ q_ScanBody
    \/ q_ReturnBody
    \/ q_BuildResponses
    \/ q_BuildQuestion
    \/ q_Return

(***************************************************************************)
(* SpecPipe: one call of pdf_to_moodle (run_pipeline.py, lines 8-37): the  *)
(* retried completion call of pdf_to_qti.py, the saving of its result and  *)
(* the conversion of the saved file.                                       *)
(***************************************************************************)
\* the arguments of the decorator, pdf_to_qti.py line 69
stop_max_attempt_number == 3

wait_fixed == 2000

\* what one execution of the body of gpt_qti_call meets: the metamodel image
\* cannot be read, the service cannot be reached, its answer is no JSON, a
\* JSON object without "choices", one with an empty list of choices, or one
\* whose first choice has content (null or a string)
Round(kind, content) == [kind |-> kind, content |-> content]

ContentTexts ==
    { <<>>,
      <<"<r>", "</r>">>,
      <<"<r>", "x", "</r>">>,
      <<"<r>", "eacute", "</r>">>,
      <<"D8", "<r>", "</r>">>,
      <<"D16", "<r>", "</r>">>,
      <<"x">>,
      <<"<r>", "x">> }

Rounds ==
    { Round(k, None) : k \in {"no image", "unreachable", "not json", "error object",
                              "no choice"} }
        \cup { Round("content", c) : c \in {None} \cup { Some(x) : x \in ContentTexts } }

\* the body of gpt_qti_call, lines 96-187
gpt_qti_call(round) ==
    CASE round.kind = "no image"     -> Raise("OSError")
      [] round.kind = "unreachable"  -> Raise("ConnectionError")
      [] round.kind = "not json"     -> Raise("JSONDecodeError")
      [] round.kind = "no choice"    -> Raise("IndexError")
      [] round.kind = "error object" -> Return(None)
      [] round.kind = "content"      -> Return(round.content)

\* a decorator that also rejects the result None
RetryRejectingNone(attempt_number, attempt) ==
    IF attempt.exc = "none" /\ attempt.val # None THEN "return"
    ELSE IF attempt_number >= stop_max_attempt_number THEN "raise"
    ELSE "sleep"

\* retrying.retry(stop_max_attempt_number=3, wait_fixed=2000) after an attempt:
\* a result is returned; an exception is raised again once the attempt number
\* has reached stop_max_attempt_number, and is followed by a sleep otherwise
Retry(attempt_number, attempt) ==
    IF attempt.exc = "none" THEN "return"
    ELSE IF attempt_number >= stop_max_attempt_number THEN "raise"
    ELSE "sleep"

\* `xml_output if xml_output else ""`, line 256: None and "" are false
SavedContent(xml_output) ==
    IF xml_output = None \/ Get(xml_output) = <<>> THEN <<>> ELSE Get(xml_output)

\* the loop of qti_to_besser over tried_encodings[i..], lines 661-677: the
\* root, or None
RECURSIVE ReadLoop(_, _, _, _)
ReadLoop(fs, bytes, encodings, i) ==
    IF i > Len(encodings) THEN None
    ELSE LET attempt == ReadAttempt(fs, bytes, encodings[i])
             todo == AfterAttempt(attempt.exc)
         IN  CASE todo = "break" -> Some(attempt.val)
               [] todo = "continue" -> ReadLoop(fs, bytes, encodings, i + 1)
               [] todo = "return None" -> None

\* qti_to_besser(xml_path, encoding) up to its result: "None" for the value
\* returned, or the name of the exception that leaves it at line 694
qti_to_besser(fs, bytes, encoding) ==
    IF fs = "missing" \/ bytes = <<>> THEN "None"
    ELSE IF ReadLoop(fs, bytes, tried_encodings(encoding), 1) = None THEN "None"
    ELSE NameLookup("AssessmentDefinition").exc

p_Idle ==
    /\ p_pc = "idle"
    /\ p_attempt_number = 0
    /\ p_log = <<>>
    /\ p_wait = 0
    /\ p_call = None
    /\ p_qti = None
    /\ p_besser = "pending"
    /\ p_moodle = NotGenerated
    /\ p_raised = "none"

\* pdf_to_moodle is called; the output folder holds no qti_output.xml, or the
\* one of an earlier run
p_Init ==
    /\ p_pc = "attempt"
    /\ p_attempt_number = 1
    /\ p_log = <<>>
    /\ p_wait = 0
    /\ p_call = None
    /\ p_qti \in {None, Some(<<"<r>", "</r>">>)}
    /\ p_besser = "pending"
    /\ p_moodle = NotGenerated
    /\ p_raised = "none"

\* one attempt of the decorated gpt_qti_call and what the decorator does with
\* it: return the result to run_pdf_to_qti_pipeline (line 241), let the
\* exception leave pdf_to_moodle, or go to sleep
p_Attempt ==
    /\ p_pc = "attempt"
    /\ \E round \in Rounds :
         LET attempt == gpt_qti_call(round)
             todo == Retry(p_attempt_number, attempt)
         IN  /\ p_log' = Append(p_log, attempt)
             /\ p_call' = IF todo = "sleep" THEN None ELSE Some(attempt)
             /\ p_raised' = IF todo = "raise" THEN attempt.exc ELSE "none"
             /\ p_pc' = CASE todo = "return" -> "save"
                          [] todo = "raise" -> "end"
                          [] todo = "sleep" -> "sleep"
    /\ UNCHANGED <<p_attempt_number, p_wait, p_qti, p_besser, p_moodle, p_others>>

\* time.sleep(wait_fixed / 1000) and the next attempt number
p_Sleep ==
    /\ p_pc = "sleep"
    /\ p_wait' = p_wait + wait_fixed
    /\ p_attempt_number' = p_attempt_number + 1
    /\ p_pc' = "attempt"
    /\ UNCHANGED <<p_log, p_call, p_qti, p_besser, p_moodle, p_raised, p_others>>

\* run_pdf_to_qti_pipeline, lines 254-258: the result is saved as
\* qti_output.xml, in UTF-8
p_Save ==
    /\ p_pc = "save"
    /\ p_qti' = Some(SavedContent(Get(p_call).val))
    /\ p_pc' = "convert"
    /\ UNCHANGED <<p_attempt_number, p_log, p_wait, p_call, p_besser, p_moodle, p_raised,
                   p_others>>

\* run_pipeline.py line 36: run_qti_moodle_pipeline on the saved file
p_Convert ==
    /\ p_pc = "convert"
    /\ LET besser_model == qti_to_besser("ok", Encode(Get(p_qti), "utf-8"), "utf-8")
           moodle == MoodleStep(besser_model)
       IN  /\ p_besser' = IF besser_model = "NameError" THEN p_besser ELSE besser_model
           /\ p_moodle' = moodle
           /\ p_raised' = moodle.raised
    /\ p_pc' = "end"
    /\ UNCHANGED <<p_attempt_number, p_log, p_wait, p_call, p_qti, p_others>>

p_Next == p_Attempt \/ p_Sleep \/ p_Save \/ p_Convert

(***************************************************************************)
(* SpecUnknown: the four loops over the children of an element (item body, *)
(* item, section, test part), each run on an element that has a child with *)
(* an unrecognized tag and on the same element without that child.         *)
(***************************************************************************)
\* elem without its child at position i (the child's tail goes with it)
Without(elem, i) ==
    [elem EXCEPT !.children = SubSeq(@, 1, i - 1) \o SubSeq(@, i + 1, Len(@))]

\* what the loop of a level collects from the children of elem, whose
\* identity is <<1>>; the loops over a section and over a part belong to
\* build_assessment_sections and build_assessment_parts, whose def statements
\* raise NameError (lines 571, 608), so that a call never reaches the loop
Collected(level, elem) ==
    CASE level = "body"    -> build_question_body(Some(elem), <<1>>)
      [] level = "item"    -> Return(Partition(elem, <<1>>))
      [] level = "section" ->
             LET annotation == NameLookup("AssessmentSection") IN
             IF annotation.exc # "none" THEN annotation
             ELSE Return(ItemElems(elem, <<1>>))
      [] level = "part"    ->
             LET annotation == NameLookup("AssessmentPart") IN
             IF annotation.exc # "none" THEN annotation
             ELSE Return(SectionElems(elem, 1))

\* elements with an unrecognized tag: a leaf, and one that has a tail and
\* holds a child the level would recognize
Unknowns(inner) ==
    {Leaf("qti-unknown", {}, S("x")), El("qti-unknown", {}, <<>>, S("t"), <<inner>>)}

UpToOne(U) == {<<>>} \cup {<<a>> : a \in U}

\* the elements with the given tag that have one of the unknown elements
\* among children taken from recognized, with the position of that child
Sites(level, tag, recognized) ==
    {[level |-> level, at |-> Len(before) + 1,
      elem |-> El(tag, {}, <<>>, <<>>, before \o <<u>> \o after)] :
        before \in UpToOne(recognized), after \in UpToOne(recognized),
        u \in Unknowns(CHOOSE r \in recognized : TRUE)}

BodySites ==
    Sites("body", "qti-item-body",
          {Leaf("p", {}, S("x")),
           El("p", {}, S("x"), <<>>,
              <<El("qti-text-entry-interaction", {<<"response-identifier", S("R")>>},
                   <<>>, S("z"), <<>>)>>),
           Leaf("pre", {}, S("y")),
           El("div", {}, <<>>, <<>>,
              <<El("blockquote", {}, <<>>, <<>>, <<Leaf("p", {}, S("x"))>>)>>),
           El("qti-choice-interaction", {}, <<>>, <<>>,
              <<El("qti-prompt", {}, <<>>, <<>>, <<Leaf("p", {}, S("x"))>>),
                Leaf("qti-simple-choice", {<<"identifier", S("A")>>}, S("x"))>>),
           El("qti-extended-text-interaction", {}, <<>>, <<>>,
              <<Leaf("qti-prompt", {}, S("x"))>>)})

ItemSites ==
    Sites("item", "qti-assessment-item",
          {Declaration(<<Value(S("A"))>>),
           ItemBody(<<Leaf("p", {}, S("x"))>>),
           CHOOSE f \in Feedbacks : f.attrib # {}})

SectionSites ==
    Sites("section", "qti-assessment-section",
          {El("qti-assessment-item", {<<"identifier", S("Q")>>}, <<>>, <<>>,
              <<ItemBody(<<>>)>>),
           ItemRef({<<"identifier", S("Q")>>, <<"href", S("q.xml")>>})})

PartSites ==
    Sites("part", "qti-test-part",
          {Leaf("qti-assessment-section", a, <<>>) : a \in TitleAttribs({"S"})})

u_Idle ==
    /\ u_pc = "idle"
    /\ u_level = "none"
    /\ u_elem = El("qti-item-body", {}, <<>>, <<>>, <<>>)
    /\ u_at = 0
    /\ u_with = None
    /\ u_without = None

u_Init ==
    /\ u_pc = "start"
    /\ \E site \in BodySites \cup ItemSites \cup SectionSites \cup PartSites :
          /\ u_level = site.level
          /\ u_elem = site.elem
          /\ u_at = site.at
    /\ u_with = None
    /\ u_without = None

\* the loop of the level over the children of the element as it is
u_CollectWith ==
    /\ u_pc = "start"
    /\ u_with' = Some(Collected(u_level, u_elem))
    /\ u_pc' = "with"
    /\ UNCHANGED <<u_level, u_elem, u_at, u_without, u_others>>

\* the same loop over the children of the element without the unknown child
u_CollectWithout ==
    /\ u_pc = "with"
    /\ u_without' = Some(Collected(u_level, Without(u_elem, u_at)))
    /\ u_pc' = "done"
    /\ UNCHANGED <<u_level, u_elem, u_at, u_with, u_others>>

u_Next == u_CollectWith \/ u_CollectWithout

(***************************************************************************)
(* SpecResponse: one call of build_response_declaration (lines 88-125) for *)
(* one response declaration and the choices A and B.                       *)
(***************************************************************************)
MapEntry(attrib) == Leaf("qti-map-entry", attrib, <<>>)

MapEntries ==
    {MapEntry({<<"map-key", S("k")>>, <<"mapped-value", S("1")>>}),
     MapEntry({<<"map-key", S("m")>>}),
     Leaf("qti-unknown", {}, <<>>)}

Mappings == {El("qti-mapping", {}, <<>>, <<>>, es) : es \in UpToTwo(MapEntries)}

CorrectResponses ==
    {El("qti-correct-response", {}, <<>>, <<>>, vs) :
        vs \in {<<>>, <<Value(S("A"))>>, <<Value(S("A")), Value(S("B"))>>, <<Value(<<>>)>>}}

\* response declarations with two children at most, and two with three
ResponseElems ==
    {El("qti-response-declaration", {<<"identifier", S("RESPONSE")>>}, <<>>, <<>>, cs) :
        cs \in UpToTwo(Mappings \cup CorrectResponses)
               \cup {<<m, c, m>> : m \in {x \in Mappings : Len(x.children) = 1},
                                   c \in CorrectResponses}}

ResponseChoices == {Choice(<<2, 1, 1>>, S("A"), S("x")), Choice(<<2, 1, 2>>, S("B"), <<>>)}

r_Idle ==
    /\ r_pc = "idle"
    /\ r_elem = Leaf("qti-response-declaration", {}, <<>>)
    /\ r_order = <<>>
    /\ r_result = None

r_Init ==
    /\ r_pc = "start"
    /\ r_elem \in ResponseElems
    /\ r_order \in Orders(ResponseChoices)
    /\ r_result = None

\* build_response_declaration({elem}, choices)
r_Build ==
    /\ r_pc = "start"
    /\ r_result' = Some(build_response_declaration({[oid |-> <<1>>, el |-> r_elem]}, r_order))
    /\ r_pc' = "done"
    /\ UNCHANGED <<r_elem, r_order, r_others>>

r_Next == r_Build

(***************************************************************************)
(* SpecMeta: the containers of metamodel/qti.py (TestSection, TestPart,    *)
(* TestDefinition) as objects on a heap, with their constructors, their    *)
(* title setters, the sections and parts setters, and add_part.  The sets  *)
(* of a client are objects on the heap too: the sections setter and the    *)
(* parts setter store the set object they are given (lines 515 and 1035),  *)
(* the getters hand the same object out (lines 506 and 1026), and whoever  *)
(* holds it adds to it.  A set holds references, that is the names of the  *)
(* objects; a title is read through the heap at the time of the check.  Of *)
(* each object the title and the children are followed.                    *)
(***************************************************************************)
SectionIds == {"s1", "s2"}

PartIds == {"p1", "p2"}

Titles == {"A", "B"}

\* the set objects: one for sections, one for parts
SectionSets == {"x1"}

PartSets == {"y1"}

\* titles = [child.title for child in children];
\* len(titles) != len(set(titles))
TitleUsedTwice(children, title) ==
    Cardinality({title[c] : c \in children}) # Cardinality(children)

\* the outcome of a call on an object: the exception and the object after it
Outcome(exc, self) == [exc |-> exc, self |-> self]

\* the setter storing the new set before it looks at the titles
TestPart_sections_assigning_first(self, sections, members, title) ==
    IF sections # None /\ TitleUsedTwice(members[Get(sections)], title)
    THEN Outcome("ValueError", [self EXCEPT !.sections = sections])
    ELSE Outcome("none", [self EXCEPT !.sections = sections])

\* TestPart.sections setter: sections is None or a set object, members maps a
\* set object to its members now, title a section to its title now
TestPart_sections(self, sections, members, title) ==
    IF sections # None /\ TitleUsedTwice(members[Get(sections)], title)
    THEN Outcome("ValueError", self)
    ELSE Outcome("none", [self EXCEPT !.sections = sections])

\* TestDefinition.parts setter: parts is None or a set object, title maps a
\* part to its title now
TestDefinition_parts(self, parts, members, title) ==
    IF parts # None /\ TitleUsedTwice(members[Get(parts)], title)
    THEN Outcome("ValueError", self)
    ELSE Outcome("none", [self EXCEPT !.parts = parts])

\* the title setters store what they are given
TestSection_title(self, title) == Outcome("none", [self EXCEPT !.title = title])

TestPart_title(self, title) == Outcome("none", [self EXCEPT !.title = title])

TestDefinition_title(self, title) == Outcome("none", [self EXCEPT !.title = title])

\* add_part reads self.parts, an attribute no TestSection has
TestSection_add_part(self, sub_section) == Outcome("AttributeError", self)

\* TestSection.__init__: plain assignments
TestSection_init(title) == [title |-> title, sub_sections |-> {}]

\* TestPart.__init__: title first, sections through the setter
TestPart_init(title, sections, members, sectionTitle) ==
    TestPart_sections([title |-> title, sections |-> None],
                      sections, members, sectionTitle)

\* TestDefinition.__init__: title first, parts through the setter
TestDefinition_init(title, parts, members, partTitle) ==
    TestDefinition_parts([title |-> title, parts |-> None],
                         parts, members, partTitle)

\* the title each section, each constructed part has now
m_SectionTitle == [s \in SectionIds |-> m_section[s].title]

m_Parts == {p \in PartIds : m_part[p] # None}

m_PartTitle == [p \in m_Parts |-> Get(m_part[p]).title]

\* a set object or None
Optional(ids) == {None} \cup {Some(x) : x \in ids}

\* arg is None, a set object or the object handed over
Call(op, self, arg, title) ==
    [op |-> op, self |-> self, children |-> arg, title |-> title]

m_Idle ==
    /\ m_section = <<>>
    /\ m_part = <<>>
    /\ m_test = None
    /\ m_sets = <<>>
    /\ m_call = Call("idle", "", None, "")
    /\ m_exc = "none"

\* the sections exist, with any titles; no part and no definition yet; the
\* sets are empty
m_Init ==
    /\ m_section \in {[s \in SectionIds |-> TestSection_init(t[s])] :
                        t \in [SectionIds -> Titles]}
    /\ m_part = [p \in PartIds |-> None]
    /\ m_test = None
    /\ m_sets = [x \in SectionSets \cup PartSets |-> {}]
    /\ m_call = Call("start", "", None, "")
    /\ m_exc = "none"

\* p = TestPart(identifier, sections, ..., title): no object when it raises
m_NewPart ==
    \E p \in PartIds, t \in Titles, sections \in Optional(SectionSets) :
        LET r == TestPart_init(t, sections, m_sets, m_SectionTitle) IN
        /\ m_part[p] = None
        /\ m_part' = [m_part EXCEPT ![p] = IF r.exc = "none" THEN Some(r.self) ELSE None]
        /\ m_call' = Call("TestPart", p, sections, t)
        /\ m_exc' = r.exc
        /\ UNCHANGED <<m_section, m_test, m_sets, m_others>>

\* part.sections = sections
m_SetSections ==
    \E p \in m_Parts, sections \in Optional(SectionSets) :
        LET r == TestPart_sections(Get(m_part[p]), sections, m_sets, m_SectionTitle) IN
        /\ m_part' = [m_part EXCEPT ![p] = Some(r.self)]
        /\ m_call' = Call("TestPart.sections", p, sections, "")
        /\ m_exc' = r.exc
        /\ UNCHANGED <<m_section, m_test, m_sets, m_others>>

\* x.add(child) on a set object, by the client that made it or by whoever
\* got it from the getter of the part or definition that holds it
\* (part.sections.add(section), test.parts.add(part)); child is no member yet
m_SetAdd ==
    \E x \in SectionSets \cup PartSets :
        \E child \in (IF x \in SectionSets THEN SectionIds ELSE m_Parts) \ m_sets[x] :
            /\ m_sets' = [m_sets EXCEPT ![x] = @ \cup {child}]
            /\ m_call' = Call("set.add", x, Some(child), "")
            /\ m_exc' = "none"
            /\ UNCHANGED <<m_section, m_part, m_test, m_others>>

\* section.title = t
m_SetSectionTitle ==
    \E s \in SectionIds, t \in Titles :
        LET r == TestSection_title(m_section[s], t) IN
        /\ m_section' = [m_section EXCEPT ![s] = r.self]
        /\ m_call' = Call("TestSection.title", s, None, t)
        /\ m_exc' = r.exc
        /\ UNCHANGED <<m_part, m_test, m_sets, m_others>>

\* part.title = t
m_SetPartTitle ==
    \E p \in m_Parts, t \in Titles :
        LET r == TestPart_title(Get(m_part[p]), t) IN
        /\ m_part' = [m_part EXCEPT ![p] = Some(r.self)]
        /\ m_call' = Call("TestPart.title", p, None, t)
        /\ m_exc' = r.exc
        /\ UNCHANGED <<m_section, m_test, m_sets, m_others>>

\* test = TestDefinition(identifier, title, parts): no object when it raises
m_NewTest ==
    \E t \in Titles, parts \in Optional(PartSets) :
        LET r == TestDefinition_init(t, parts, m_sets, m_PartTitle) IN
        /\ m_test = None
        /\ m_test' = IF r.exc = "none" THEN Some(r.self) ELSE None
        /\ m_call' = Call("TestDefinition", "test", parts, t)
        /\ m_exc' = r.exc
        /\ UNCHANGED <<m_section, m_part, m_sets, m_others>>

\* test.parts = parts
m_SetParts ==
    \E parts \in Optional(PartSets) :
        LET r == TestDefinition_parts(Get(m_test), parts, m_sets, m_PartTitle) IN
        /\ m_test # None
        /\ m_test' = Some(r.self)
        /\ m_call' = Call("TestDefinition.parts", "test", parts, "")
        /\ m_exc' = r.exc
        /\ UNCHANGED <<m_section, m_part, m_sets, m_others>>

\* test.title = t
m_SetTestTitle ==
    \E t \in Titles :
        LET r == TestDefinition_title(Get(m_test), t) IN
        /\ m_test # None
        /\ m_test' = Some(r.self)
        /\ m_call' = Call("TestDefinition.title", "test", None, t)
        /\ m_exc' = r.exc
        /\ UNCHANGED <<m_section, m_part, m_sets, m_others>>

\* section.add_part(sub_section)
m_AddPart ==
    \E s \in SectionIds, sub \in SectionIds :
        LET r == TestSection_add_part(m_section[s], sub) IN
        /\ m_section' = [m_section EXCEPT ![s] = r.self]
        /\ m_call' = Call("TestSection.add_part", s, Some(sub), "")
        /\ m_exc' = r.exc
        /\ UNCHANGED <<m_part, m_test, m_sets, m_others>>

m_Next ==
    \/ m_NewPart
    \/ m_SetSections
    \/ m_SetAdd
    \/ m_SetTestTitle
    \/ m_SetSectionTitle
    \/ m_SetPartTitle
    \/ m_NewTest
    \/ m_SetParts
    \/ m_AddPart

(***************************************************************************)
(* SpecWalk: the control of qti_to_besser, and of build_questions called   *)
(* on its own, loop by loop.  Every for loop                               *)
(* of qti_to_besser.py is a frame: the kind of the loop, the element it    *)
(* belongs to, the elements it goes through and the position of the next   *)
(* one.  An element is named by its path: the child numbers from the root  *)
(* of the document; the path of an element of the file of an href starts   *)
(* with 0.  itertext() and iter() are loops over the element and its       *)
(* descendants in document order.  w_visits counts, for every element, how *)
(* often a loop has taken it.                                              *)
(***************************************************************************)
RECURSIVE ElemAt(_, _)
ElemAt(root, path) ==
    IF path = <<>> THEN root ELSE ElemAt(root.children[Head(path)], Tail(path))

RECURSIVE PathsUnder(_, _)
PathsUnder(elem, path) ==
    <<path>> \o Concat([i \in 1 .. Len(elem.children) |->
                           PathsUnder(elem.children[i], Append(path, i))])

\* the element at a path, in the document or in the file
Node(path) ==
    IF path # <<>> /\ Head(path) = 0 THEN ElemAt(w_file.root, Tail(path))
    ELSE ElemAt(w_doc, path)

Range(seq) == {seq[i] : i \in 1 .. Len(seq)}

\* for child in elem
ChildPaths(path) == [i \in 1 .. Len(Node(path).children) |-> Append(path, i)]

ChildPathsWhere(path, tags) ==
    {Append(path, i) : i \in {j \in 1 .. Len(Node(path).children) :
                                 Node(path).children[j].tag \in tags}}

Frame(kind, at, list) == [kind |-> kind, at |-> at, list |-> list, i |-> 1]

\* for child in elem
Children(kind, at) == Frame(kind, at, ChildPaths(at))

\* elem.itertext(), elem.iter()
Descendants(kind, at) == Frame(kind, at, PathsUnder(Node(at), at))

\* the loop stays on the element it has taken
Stay(frame) == frame

\* the loop moves on to the next element
Advance(frame) == [frame EXCEPT !.i = @ + 1]

\* lines 327-402: what build_question_body runs on a child of the body
BodyCalls(x) ==
    LET el == Node(x) IN
    CASE el.tag = "p" ->
             <<Descendants("itertext", x), Descendants("parse_paragraph", x)>>
             \o (IF parse_paragraph(el) = <<>> THEN <<Descendants("itertext", x)>>
                 ELSE <<>>)
      [] el.tag = "pre" -> <<Descendants("itertext", x)>>
      [] el.tag = "div" -> <<Children("div", x)>>
      [] el.tag = "qti-extended-text-interaction" -> <<Children("extended", x)>>
      [] el.tag = "qti-choice-interaction" ->
             <<Children("choice", x),
               Frame("build_choice", x,
                     [i \in 1 .. Cardinality(ChildrenWhere(el, "qti-simple-choice")) |->
                         Append(x, Sorted(ChildrenWhere(el, "qti-simple-choice"))[i])])>>
      [] OTHER -> <<>>

\* lines 355-369: what the loop over a blockquote runs on a p
QuoteCalls(x) ==
    LET inline_elements == parse_paragraph(Node(x)) IN
    <<Descendants("parse_paragraph", x)>>
    \o (IF \A k \in 1 .. Len(inline_elements) :
                inline_elements[k].kind = "TextEntryInteraction"
        THEN <<Descendants("itertext", x)>> ELSE <<>>)

\* lines 434-461 and 505-525: the loop over the children of the item itself,
\* or of the root of the file of its href; none without such a file
ItemCalls(x) ==
    LET found == Resolve([el |-> Node(x), file |-> w_file]) IN
    CASE found.how = "embedded" -> <<Children("item", x)>>
      [] found.how = "href" -> <<Children("item", <<0>>)>>
      [] OTHER -> <<>>

\* the loops a loop of the given kind runs on the element x it has taken
Calls(kind, x) ==
    LET tag == Node(x).tag IN
    CASE kind = "questions" -> ItemCalls(x)
      [] kind = "body" -> BodyCalls(x)
      [] kind = "div" /\ tag = "blockquote" -> <<Children("blockquote", x)>>
      [] kind = "blockquote" /\ tag = "p" -> QuoteCalls(x)
      [] kind = "extended" /\ tag = "qti-prompt" -> <<Descendants("itertext", x)>>
      [] kind = "choice" /\ tag = "qti-prompt" -> <<Children("prompt", x)>>
      [] kind = "prompt" /\ tag = "p" -> <<Descendants("itertext", x)>>
      [] kind = "build_choice" -> <<Descendants("itertext", x)>>
      [] kind = "responses" -> <<Children("response", x)>>
      [] kind = "response" /\ tag = "qti-correct-response" -> <<Children("values", x)>>
      [] kind = "response" /\ tag = "qti-mapping" -> <<Children("entries", x)>>
      [] kind = "feedbacks" -> <<Children("feedback", x)>>
      [] kind = "feedback" /\ tag = "p" -> <<Descendants("itertext", x)>>
      [] OTHER -> <<>>

\* the exception raised on the element x taken by a loop of the given kind:
\* value_elem.text.strip() on a qti-value without text (line 38)
RaisedOn(kind, x) ==
    IF kind = "values" /\ Node(x).tag = "qti-value" /\ Node(x).text = <<>>
    THEN "AttributeError" ELSE "none"

\* the last qti-item-body child of an item, None without one
BodyOf(item) ==
    LET bodies == Sorted(ChildrenWhere(Node(item), "qti-item-body")) IN
    IF bodies = <<>> THEN None ELSE Some(Append(item, bodies[Len(bodies)]))

\* the exception raised when a loop of the given kind is over: iterating the
\* body None (line 327), ModalFeedback(is_hidden=...) (line 158), the name
\* AssessmentDefinition after the children of the root (line 694)
RaisedAfter(frame) ==
    CASE frame.kind = "item" /\ BodyOf(frame.at) = None -> "TypeError"
      [] frame.kind = "feedback" -> "TypeError"
      [] frame.kind = "root" -> NameLookup("AssessmentDefinition").exc
      [] OTHER -> "none"

Parent(path) == SubSeq(path, 1, Len(path) - 1)

\* the loops that may follow a loop of the given kind, one for each order in
\* which a set is gone through
Continuations(frame) ==
    LET at == frame.at
        Over(kind, owner, paths) ==
            {<<Frame(kind, owner, order)>> : order \in Orders(paths)}
    IN
    CASE frame.kind = "item" -> {<<Children("body", Get(BodyOf(at)))>>}
      [] frame.kind = "body" ->
             Over("responses", Parent(at),
                  ChildPathsWhere(Parent(at), {"qti-response-declaration"}))
      [] frame.kind = "responses" ->
             Over("feedbacks", at, ChildPathsWhere(at, {"qti-modal-feedback"}))
      [] OTHER -> {<<>>}

Reverse(seq) == [i \in 1 .. Len(seq) |-> seq[Len(seq) + 1 - i]]

\* an exception raised under the given stack of loops: inside the try of an
\* item whose except clause names it, the item is given up and the loop over
\* the questions goes on; otherwise it leaves the function called
Throw(exc, stack) ==
    LET inside == {k \in 1 .. Len(stack) : stack[k].kind = "questions"}
        k == CHOOSE j \in inside : TRUE
        question == stack[k].list[stack[k].i - 1]
        how == Resolve([el |-> Node(question), file |-> w_file]).how
    IN  IF inside # {} /\ Caught(how, exc)
        THEN [pc |-> "walk", stack |-> SubSeq(stack, 1, k), out |-> "pending"]
        ELSE [pc |-> "raised", stack |-> <<>>, out |-> exc]

\* the walk goes on under the given stack, or without loop build_questions
\* returns its set
Go(stack) ==
    IF stack = <<>> THEN [pc |-> "returned", stack |-> <<>>, out |-> "set"]
    ELSE [pc |-> "walk", stack |-> stack, out |-> "pending"]

MaxWalkParts == 2

\* a paragraph with text, an inline element and a gap; one with text only
WalkParagraphs ==
    {El("p", {}, S("a"), <<>>,
        <<Leaf("b", {}, S("b")),
          Leaf("qti-text-entry-interaction", {<<"response-identifier", S("R")>>}, <<>>)>>),
     Leaf("p", {}, <<>>)}

WalkBodies ==
    {ItemBody(<<p>>) : p \in WalkParagraphs}
    \cup {ItemBody(<<El("div", {}, <<>>, <<>>,
                        <<El("blockquote", {}, <<>>, <<>>,
                             <<Leaf("p", {}, S("q"))>>)>>),
                     El("qti-choice-interaction", {}, <<>>, <<>>,
                        <<El("qti-prompt", {}, <<>>, <<>>, <<Leaf("p", {}, S("c"))>>),
                          Leaf("qti-simple-choice", {<<"identifier", S("A")>>}, S("x"))>>),
                     El("qti-extended-text-interaction", {}, <<>>, <<>>,
                        <<Leaf("qti-prompt", {}, S("e"))>>),
                     Leaf("pre", {}, S("r"))>>)}

\* the children of an item: a body alone; a body after a declaration with a
\* mapping, with a value, with a value without text; a body and a feedback;
\* no body
WalkContents ==
    {<<b>> : b \in WalkBodies}
    \cup {<<El("qti-response-declaration", {}, <<>>, <<>>,
              <<El("qti-correct-response", {}, <<>>, <<>>, <<Value(v)>>),
                El("qti-mapping", {}, <<>>, <<>>,
                   <<MapEntry({<<"map-key", S("k")>>})>>)>>),
            ItemBody(<<>>)>> : v \in {S("A"), <<>>}}
    \cup {<<ItemBody(<<>>), CHOOSE f \in Feedbacks : f.attrib = {}>>,
          <<Leaf("qti-outcome-declaration", {}, <<>>)>>}

WalkItem(cs) == El("qti-assessment-item", {<<"identifier", S("Q")>>}, <<>>, <<>>, cs)

WalkRef == ItemRef({<<"identifier", S("Q")>>, <<"href", S("q.xml")>>})

WalkSection(title, items) ==
    El("qti-assessment-section", {<<"title", S(title)>>}, <<>>, <<>>, items)

WalkPart(title, sections) ==
    El("qti-test-part", {<<"title", S(title)>>}, <<>>, <<>>, sections)

\* documents of one part with one section of one embedded item or of one
\* reference and one embedded item; documents of two parts, the first with
\* an item of one paragraph; documents of parts without items, with titles
\* that differ or not; the document without part
WalkDocs ==
    LET Doc(parts) == El("qti-assessment-test", {}, <<>>, <<>>,
                         <<Leaf("qti-outcome-declaration", {}, <<>>)>> \o parts)
        bare == {WalkPart("A", <<WalkSection("S", <<>>)>>),
                 WalkPart("B", <<WalkSection("T", <<>>)>>),
                 WalkPart("A", <<>>)}
    IN  {Doc(<<WalkPart("A", <<WalkSection("S", <<WalkItem(cs)>>)>>)>>) :
             cs \in WalkContents}
        \cup {Doc(<<WalkPart("A", <<WalkSection("S", <<WalkRef, WalkItem(<<ItemBody(<<>>)>>)>>)>>)>>)}
        \cup {Doc(<<WalkPart("A", <<WalkSection("S", <<WalkItem(<<ItemBody(<<p>>)>>)>>)>>),
                    WalkPart("B", <<WalkSection("T", <<>>)>>)>>) : p \in WalkParagraphs}
        \cup {Doc(ps) : ps \in SeqsUpTo(bare, MaxWalkParts)}

\* what is found at the href of WalkRef
WalkFiles ==
    {[NoFile EXCEPT !.state = st] : st \in {"absent", "malformed"}}
    \cup {[state |-> "ok", root |-> WalkItem(cs)] : cs \in WalkContents}

\* whether the file of the document is there, and what each attempt to read
\* it ends with
WalkSources ==
    {[fs |-> "missing", attempts |-> <<>>]}
    \cup {[fs |-> "ok", attempts |-> a] :
            a \in {<<"none">>, <<"UnicodeError", "none">>, <<"UnicodeError", "UnicodeError">>,
                   <<"ParseError">>, <<"UnicodeError", "ParseError">>, <<"OSError">>}}

WalkPaths(doc, file) == Range(PathsUnder(doc, <<>>)) \cup Range(PathsUnder(file.root, <<0>>))

HasRef(doc) == \E p \in Range(PathsUnder(doc, <<>>)) : Href(ElemAt(doc, p)) # <<>>

\* the loop build_questions starts with when it is called on the items of
\* a section, for each order in which the set handed over is gone through
\* (qti_to_besser never comes to call it: line 694 raises before)
WalkCalls ==
    LET Over(kind, at, tags) ==
            {<<Frame(kind, at, order)>> : order \in Orders(ChildPathsWhere(at, tags))}
        parts == ChildPathsWhere(<<>>, {"qti-test-part"})
        sections == UNION {ChildPathsWhere(p, {"qti-assessment-section"}) : p \in parts}
    IN  UNION {Over("questions", s, {"qti-assessment-item-ref", "qti-assessment-item"}) :
                  s \in sections}

w_Idle ==
    /\ w_pc = "idle"
    /\ w_doc = El("qti-assessment-test", {}, <<>>, <<>>, <<>>)
    /\ w_file = NoFile
    /\ w_source = [fs |-> "missing", attempts |-> <<>>]
    /\ w_attempt = 0
    /\ w_stack = <<>>
    /\ w_visits = <<>>
    /\ w_out = "pending"

\* qti_to_besser is called on the file of the document, read in every way,
\* or build_questions is called on the items of a section of the document
w_Init ==
    /\ w_pc \in {"open", "walk"}
    /\ w_doc \in WalkDocs
    /\ w_file \in IF HasRef(w_doc) THEN WalkFiles ELSE {NoFile}
    /\ w_source \in IF w_pc = "walk"
                    THEN {s \in WalkSources : s.attempts = <<"none">>}
                    ELSE WalkSources
    /\ w_attempt = 0
    /\ w_stack \in IF w_pc = "walk" THEN WalkCalls ELSE {<<>>}
    /\ w_visits = [p \in WalkPaths(w_doc, w_file) |-> 0]
    /\ w_out = "pending"

\* lines 655-660: no file, or an empty one
w_CheckFile ==
    /\ w_pc = "open"
    /\ w_attempt = 0
    /\ IF w_source.fs = "missing"
       THEN w_pc' = "returned" /\ w_out' = "None" /\ w_attempt' = 0
       ELSE w_pc' = "open" /\ w_out' = w_out /\ w_attempt' = 1
    /\ UNCHANGED <<w_doc, w_file, w_source, w_stack, w_visits, w_others>>

\* lines 662-683: one iteration of the loop over tried_encodings; after it,
\* with a root, the loop over the children of the root is entered
w_Attempt ==
    /\ w_pc = "open"
    /\ w_attempt >= 1
    /\ LET todo == AfterAttempt(w_source.attempts[w_attempt])
           last == w_attempt = Len(tried_encodings("utf-8"))
       IN  CASE todo = "break" ->
                    /\ w_pc' = "walk"
                    /\ w_stack' = <<Children("root", <<>>)>>
                    /\ UNCHANGED <<w_attempt, w_out>>
             [] todo = "continue" /\ ~last ->
                    /\ w_attempt' = w_attempt + 1
                    /\ UNCHANGED <<w_pc, w_stack, w_out>>
             [] OTHER ->
                    /\ w_pc' = "returned"
                    /\ w_out' = "None"
                    /\ UNCHANGED <<w_attempt, w_stack>>
    /\ UNCHANGED <<w_doc, w_file, w_source, w_visits, w_others>>

\* one iteration of the innermost loop: it takes its next element and runs
\* the loops of its body on it
w_Visit ==
    /\ w_pc = "walk"
    /\ LET n == Len(w_stack)
           frame == w_stack[n]
       IN  /\ frame.i <= Len(frame.list)
           /\ LET x == frame.list[frame.i]
                  moved == [w_stack EXCEPT ![n] = Advance(frame)]
                  exc == RaisedOn(frame.kind, x)
                  next == IF exc # "none" THEN Throw(exc, moved)
                          ELSE Go(moved \o Reverse(Calls(frame.kind, x)))
              IN  /\ w_visits' = [w_visits EXCEPT ![x] = @ + 1]
                  /\ w_pc' = next.pc
                  /\ w_stack' = next.stack
                  /\ w_out' = next.out
    /\ UNCHANGED <<w_doc, w_file, w_source, w_attempt, w_others>>

\* the innermost loop is over: what follows it raises, or the loops that
\* follow it are entered, or the loop around it goes on
w_EndLoop ==
    /\ w_pc = "walk"
    /\ LET n == Len(w_stack)
           frame == w_stack[n]
           rest == SubSeq(w_stack, 1, n - 1)
           exc == RaisedAfter(frame)
       IN  /\ frame.i > Len(frame.list)
           /\ \E next \in IF exc # "none" THEN {Throw(exc, rest)}
                          ELSE {Go(rest \o loops) : loops \in Continuations(frame)} :
                 /\ w_pc' = next.pc
                 /\ w_stack' = next.stack
                 /\ w_out' = next.out
    /\ UNCHANGED <<w_doc, w_file, w_source, w_attempt, w_visits, w_others>>

w_Next ==
    \/ w_CheckFile
    \/ w_Attempt
    \/ w_Visit
    \/ w_EndLoop

(***************************************************************************)
(* SpecTwo: two invocations of qti_to_besser from the parsed root on, each *)
(* on its own document, their steps interleaved in any way.  Every         *)
(* variable of qti_to_besser.py is local to a call: an invocation has its  *)
(* own root, its own set of parts, its own position.                       *)
(***************************************************************************)
Invocations == {1, 2}

\* a document of each kind: without part; one part; two parts that build; two
\* parts of one title; two parts whose sections have one title
TwoDocs ==
    LET Doc(parts) == El("qti-assessment-test", {}, <<>>, <<>>, parts)
        a == WalkPart("A", <<WalkSection("S", <<>>)>>)
        b == WalkPart("B", <<WalkSection("T", <<>>)>>)
        c == WalkPart("B", <<WalkSection("S", <<>>), Leaf("qti-unknown", {}, <<>>)>>)
    IN  {Doc(<<>>), Doc(<<a>>), Doc(<<a, b>>), Doc(<<b, c>>), Doc(<<a, c>>)}

d_Idle ==
    /\ d_pc = <<>>
    /\ d_doc = <<>>
    /\ d_order = <<>>
    /\ d_result = <<>>

d_Init ==
    /\ d_pc = [i \in Invocations |-> "start"]
    /\ d_doc \in [Invocations -> TwoDocs]
    /\ d_order = [i \in Invocations |-> <<>>]
    /\ d_result = [i \in Invocations |-> None]

\* lines 683-692 for invocation i: the parts of its root go into its set
\* assessment_parts, kept here by their positions in document order
d_CollectParts(i) ==
    /\ d_pc[i] = "start"
    /\ d_order' = [d_order EXCEPT ![i] = Sorted(ChildrenWhere(d_doc[i], "qti-test-part"))]
    /\ d_pc' = [d_pc EXCEPT ![i] = "definition"]
    /\ UNCHANGED <<d_doc, d_result, d_others>>

\* line 694 for invocation i: the name AssessmentDefinition is looked up
d_BuildDefinition(i) ==
    /\ d_pc[i] = "definition"
    /\ d_result' = [d_result EXCEPT ![i] = Some(TreeOf(d_doc[i]))]
    /\ d_pc' = [d_pc EXCEPT ![i] = "done"]
    /\ UNCHANGED <<d_doc, d_order, d_others>>

d_Step(i) == d_CollectParts(i) \/ d_BuildDefinition(i)

d_Next ==
    \/ d_Step(1)
    \/ d_Step(2)

(***************************************************************************)
(* SpecFeedback: one call of build_feedbacks on the feedback elements of   *)
(* an item, two at most, in the order in which the set is gone through.    *)
(***************************************************************************)
\* paragraphs with text, without text, and a child that is no paragraph
FeedbackChildren ==
    {Leaf("p", {}, S("x")), Leaf("p", {}, S("y")), Leaf("p", {}, <<>>),
     Leaf("div", {}, S("z"))}

FeedbackElems ==
    {El("qti-modal-feedback", {<<"identifier", S("F")>>, <<"showHide", S("show")>>},
        <<>>, <<>>, cs) : cs \in UpToTwo(FeedbackChildren)}

\* the feedback elements of the item, as children 1 and 2 of the item
FeedbackSets ==
    {<<>>} \cup {<<[oid |-> <<1>>, el |-> a]>> : a \in FeedbackElems}
    \cup {<<[oid |-> <<1>>, el |-> a], [oid |-> <<2>>, el |-> b]>> :
             a, b \in FeedbackElems}

f_Idle ==
    /\ f_pc = "idle"
    /\ f_feedbacks = <<>>
    /\ f_result = None

f_Init ==
    /\ f_pc = "start"
    /\ f_feedbacks \in UNION {Orders(Range(fs)) : fs \in FeedbackSets}
    /\ f_result = None

\* feedbacks = build_feedbacks(feedback_set)
f_Build ==
    /\ f_pc = "start"
    /\ LET got == build_feedbacks(f_feedbacks)
       IN  f_result' = Some([exc |-> got.exc, val |-> got.val])
    /\ f_pc' = "done"
    /\ UNCHANGED <<f_feedbacks, f_others>>

f_Next == f_Build

(***************************************************************************)
(* SpecMoodle: MoodleGenerator.generate, besser_to_moodle.py lines 39-86,  *)
(* statement by statement, on a file system of one directory (output_dir)  *)
(* and one path in it (output_file_name).  The template                    *)
(* templates/moodle_template.py.j2 is read by jinja2 at each call.         *)
(***************************************************************************)
\* the statements of generate that act on the file system or can raise, in
\* the order of the code, the file opened first
GenerateStepsOpeningFirst == <<"makedirs", "join", "open", "render", "write">>

\* lines 62, 64, 65, 67, 68
GenerateSteps == <<"makedirs", "join", "render", "open", "write">>

\* what is at a path: nothing, a directory, or a file with its content
Absent == [kind |-> "absent", content |-> <<>>]

Directory == [kind |-> "directory", content |-> <<>>]

File(content) == [kind |-> "file", content |-> content]

\* the models handed to the generator
MoodleModels == {[identifier |-> S(i), title |-> S("T")] : i \in {"a", "b"}}

\* _render_template: the template is looked up, then rendered on the model;
\* a template is "missing", "failing" (its rendering raises) or "ok"
RenderTemplate(template, output_file_name, assessment_def) ==
    CASE template = "missing" -> Raise("TemplateNotFound")
      [] template = "failing" -> Raise("TemplateError")
      [] OTHER -> Return(<<"quiz">> \o assessment_def.identifier \o assessment_def.title)

\* os.makedirs(output_dir, exist_ok=True): what is at output_dir afterwards,
\* FileExistsError when a file is there
MakeDirs(dir) ==
    IF dir.kind = "file" THEN Raise("FileExistsError") ELSE Return(Directory)

\* os.path.join(output_dir, output_file_name), a path being a str in which
\* each separator "/" is a symbol of its own: an absolute second path
\* replaces the first; no separator is put after an empty first path or
\* after one that ends with a separator
PathJoin(output_dir, output_file_name) ==
    IF output_dir = None \/ output_file_name = None THEN Raise("TypeError")
    ELSE LET a == Get(output_dir)
             b == Get(output_file_name)
         IN  IF b # <<>> /\ Head(b) = "/" THEN Return(b)
             ELSE IF a = <<>> \/ a[Len(a)] = "/" THEN Return(a \o b)
             ELSE Return(a \o <<"/">> \o b)

\* os.getcwd(): the symbol stands for the absolute path of the directory
Cwd == <<"cwd">>

\* open(file_path, mode="w"): the file is created or emptied
OpenForWriting(file) ==
    IF file.kind = "directory" THEN Raise("IsADirectoryError") ELSE Return(File(<<>>))

g_Idle ==
    /\ g_i = 0
    /\ g_self = [output_dir |-> None, output_file_name |-> None]
    /\ g_model = [identifier |-> <<>>, title |-> <<>>]
    /\ g_template = "missing"
    /\ g_dir = Absent
    /\ g_file = Absent
    /\ g_code = None
    /\ g_exc = "none"

\* a generator as MoodleGenerator.__init__ leaves it, and a file system
g_Init ==
    /\ g_i = 1
    /\ g_self \in [output_dir : {None, Some(<<>>), Some(S("out")), Some(<<"out", "/">>)},
                   output_file_name : {None, Some(S("moodle.xml"))}]
    /\ g_model \in MoodleModels
    /\ g_template \in {"missing", "failing", "ok"}
    /\ g_dir \in {Absent, Directory, File(S("f"))}
    /\ g_file \in IF g_dir = Directory THEN {Absent, Directory, File(S("old"))}
                  ELSE {Absent}
    /\ g_code = None
    /\ g_exc = "none"

g_At(step) == g_exc = "none" /\ g_i <= Len(GenerateSteps) /\ GenerateSteps[g_i] = step

\* the statement has run: the next one, or the exception leaves generate
g_After(exc) ==
    /\ g_exc' = exc
    /\ g_i' = IF exc = "none" THEN g_i + 1 ELSE g_i

\* lines 59-62: `if not self.output_dir` holds for None and for ""
g_MakeDirs ==
    /\ g_At("makedirs")
    /\ LET made == MakeDirs(g_dir)
       IN  /\ g_self' = [g_self EXCEPT !.output_dir =
                            IF @ = None \/ @ = Some(<<>>)
                            THEN Some(PathJoin(Some(Cwd), Some(S("output"))).val)
                            ELSE @]
           /\ g_dir' = IF made.exc = "none" THEN made.val ELSE g_dir
           /\ g_After(made.exc)
    /\ UNCHANGED <<g_model, g_template, g_file, g_code, g_others>>

\* line 64
g_Join ==
    /\ g_At("join")
    /\ g_After(PathJoin(g_self.output_dir, g_self.output_file_name).exc)
    /\ UNCHANGED <<g_self, g_model, g_template, g_dir, g_file, g_code, g_others>>

\* line 65 and lines 71-86
g_Render ==
    /\ g_At("render")
    /\ LET generated_code == RenderTemplate(g_template, g_self.output_file_name, g_model)
       IN  /\ g_code' = IF generated_code.exc = "none" THEN Some(generated_code.val)
                        ELSE g_code
           /\ g_After(generated_code.exc)
    /\ UNCHANGED <<g_self, g_model, g_template, g_dir, g_file, g_others>>

\* line 67
g_Open ==
    /\ g_At("open")
    /\ LET f == OpenForWriting(g_file)
       IN  /\ g_file' = IF f.exc = "none" THEN f.val ELSE g_file
           /\ g_After(f.exc)
    /\ UNCHANGED <<g_self, g_model, g_template, g_dir, g_code, g_others>>

\* lines 67-69, and the file is closed
g_Write ==
    /\ g_At("write")
    /\ g_file' = File(Get(g_code))
    /\ g_After("none")
    /\ UNCHANGED <<g_self, g_model, g_template, g_dir, g_code, g_others>>

g_Next ==
    \/ g_MakeDirs
    \/ g_Join
    \/ g_Render
    \/ g_Open
    \/ g_Write

(***************************************************************************)
(* The specifications.                                                     *)
(***************************************************************************)
ChoiceInit == c_Init /\ e_Idle /\ t_Idle /\ b_Idle /\ q_Idle /\ p_Idle /\ u_Idle /\ r_Idle /\ m_Idle /\ w_Idle /\ d_Idle /\ f_Idle /\ g_Idle

SpecChoice == ChoiceInit /\ [][c_Next]_vars

EncInit == e_Init /\ c_Idle /\ t_Idle /\ b_Idle /\ q_Idle /\ p_Idle /\ u_Idle /\ r_Idle /\ m_Idle /\ w_Idle /\ d_Idle /\ f_Idle /\ g_Idle

SpecEnc == EncInit /\ [][e_Next]_vars

TreeInit == t_Init /\ c_Idle /\ e_Idle /\ b_Idle /\ q_Idle /\ p_Idle /\ u_Idle /\ r_Idle /\ m_Idle /\ w_Idle /\ d_Idle /\ f_Idle /\ g_Idle

SpecTree == TreeInit /\ [][t_Next]_vars

BodyInit == b_Init /\ c_Idle /\ e_Idle /\ t_Idle /\ q_Idle /\ p_Idle /\ u_Idle /\ r_Idle /\ m_Idle /\ w_Idle /\ d_Idle /\ f_Idle /\ g_Idle

SpecBody == BodyInit /\ [][b_Next]_vars

ItemInit == q_Init /\ c_Idle /\ e_Idle /\ t_Idle /\ b_Idle /\ p_Idle /\ u_Idle /\ r_Idle /\ m_Idle /\ w_Idle /\ d_Idle /\ f_Idle /\ g_Idle

SpecItem == ItemInit /\ [][q_Next]_vars

PipeInit == p_Init /\ c_Idle /\ e_Idle /\ t_Idle /\ b_Idle /\ q_Idle /\ u_Idle /\ r_Idle /\ m_Idle /\ w_Idle /\ d_Idle /\ f_Idle /\ g_Idle

SpecPipe == PipeInit /\ [][p_Next]_vars

UnknownInit == u_Init /\ c_Idle /\ e_Idle /\ t_Idle /\ b_Idle /\ q_Idle /\ p_Idle /\ r_Idle /\ m_Idle /\ w_Idle /\ d_Idle /\ f_Idle /\ g_Idle

SpecUnknown == UnknownInit /\ [][u_Next]_vars

ResponseInit == r_Init /\ c_Idle /\ e_Idle /\ t_Idle /\ b_Idle /\ q_Idle /\ p_Idle /\ u_Idle /\ m_Idle /\ w_Idle /\ d_Idle /\ f_Idle /\ g_Idle

SpecResponse == ResponseInit /\ [][r_Next]_vars

MetaInit == m_Init /\ c_Idle /\ e_Idle /\ t_Idle /\ b_Idle /\ q_Idle /\ p_Idle /\ u_Idle /\ r_Idle /\ w_Idle /\ d_Idle /\ f_Idle /\ g_Idle

SpecMeta == MetaInit /\ [][m_Next]_vars

WalkInit == w_Init /\ c_Idle /\ e_Idle /\ t_Idle /\ b_Idle /\ q_Idle /\ p_Idle /\ u_Idle /\ r_Idle /\ m_Idle /\ d_Idle /\ f_Idle /\ g_Idle

SpecWalk == WalkInit /\ [][w_Next]_vars

TwoInit == d_Init /\ c_Idle /\ e_Idle /\ t_Idle /\ b_Idle /\ q_Idle /\ p_Idle /\ u_Idle /\ r_Idle /\ m_Idle /\ w_Idle /\ f_Idle /\ g_Idle

SpecTwo == TwoInit /\ [][d_Next]_vars

FeedbackInit == f_Init /\ c_Idle /\ e_Idle /\ t_Idle /\ b_Idle /\ q_Idle /\ p_Idle /\ u_Idle /\ r_Idle /\ m_Idle /\ w_Idle /\ d_Idle /\ g_Idle

SpecFeedback == FeedbackInit /\ [][f_Next]_vars

MoodleInit == g_Init /\ c_Idle /\ e_Idle /\ t_Idle /\ b_Idle /\ q_Idle /\ p_Idle /\ u_Idle /\ r_Idle /\ m_Idle /\ w_Idle /\ d_Idle /\ f_Idle

SpecMoodle == MoodleInit /\ [][g_Next]_vars

\* the interpreter runs the one thread of qti_to_besser until it returns or
\* raises: a step that can be taken is taken
SpecWalkFair == WalkInit /\ [][w_Next]_vars /\ WF_w_vars(w_Next)

(***************************************************************************)
(* Claims settled under SpecEnc.                                           *)
(***************************************************************************)
\* the {utf-8, utf-16} alternate of an encoding
e_Alternate(enc) == IF Codec(enc) = "utf-16" THEN "utf-8" ELSE "utf-16"

\* text is a well-formed document that, saved in the encoding saved, declares
\* no other encoding than that one
e_WellFormedSavedIn(text, saved) ==
    /\ WellFormed(text)
    /\ text[1] = "D8" => saved = "utf-8"
    /\ text[1] = "D16" => saved = "utf-16"

\* C9: a readable, well-formed document saved in one encoding of {utf-8,
\* utf-16} and read with the other one is parsed by the second attempt and a
\* model is returned; when both attempts fail to decode, None is returned.
C9_FallbackReadsAlternateEncoding ==
    e_pc = "done" /\ e_fs = "ok" =>
        /\ ( /\ e_WellFormedSavedIn(e_text, e_saved)
             /\ e_encoding \in {"utf-8", "utf-16"}
             /\ e_saved = e_Alternate(e_encoding) )
           => /\ e_result = "model"
              /\ Len(e_attempts) = 2
              /\ e_attempts[2] = [enc |-> e_saved, outcome |-> "none"]
        /\ ( /\ Len(e_attempts) = 2
             /\ e_attempts[1].outcome = "UnicodeError"
             /\ e_attempts[2].outcome = "UnicodeError" )
           => e_result = "None"

\* C10: at most two read attempts are made, the first with the caller's
\* encoding, the second with the alternate encoding and exactly when the first
\* failed to decode; a parse error or a file-access error is the last attempt
\* and ends the call with None; so does any failure of the second attempt.
C10_AtMostTwoAttempts ==
    /\ Len(e_attempts) <= 2
    /\ Len(e_attempts) >= 1 => e_attempts[1].enc = e_encoding
    /\ Len(e_attempts) = 2 =>
          /\ e_attempts[1].outcome = "UnicodeError"
          /\ Codec(e_attempts[2].enc) = e_Alternate(e_encoding)
    /\ ( /\ e_pc \in {"done", "end"}
         /\ Len(e_attempts) >= 1
         /\ e_attempts[1].outcome = "UnicodeError" ) => Len(e_attempts) = 2
    /\ \A k \in 1 .. Len(e_attempts) :
          e_attempts[k].outcome \in {"ParseError", "OSError"} =>
              /\ k = Len(e_attempts)
              /\ e_pc \in {"done", "end"}
              /\ e_result = "None"
    /\ ( /\ e_pc = "done"
         /\ Len(e_attempts) = 2
         /\ e_attempts[2].outcome # "none" ) => e_result = "None"

(***************************************************************************)
(* Claims settled under SpecTree.                                          *)
(***************************************************************************)
\* the title read from an element (lines 585 and 628)
t_Title(el) == AttribGet(el, "title", UNDEFINED)

\* two test parts of the document bear the same title
t_TwoPartsSameTitle ==
    \E i, j \in ChildrenWhere(t_doc, "qti-test-part") :
        i # j /\ t_Title(t_doc.children[i]) = t_Title(t_doc.children[j])

\* some test part of the document holds two sections bearing the same title
t_TwoSectionsSameTitle ==
    \E p \in ChildrenWhere(t_doc, "qti-test-part") :
        \E i, j \in ChildrenWhere(t_doc.children[p], "qti-assessment-section") :
            /\ i # j
            /\ t_Title(t_doc.children[p].children[i])
                  = t_Title(t_doc.children[p].children[j])

\* C4: the constructors never yield a TestPart with two sections of one title
\* nor a TestDefinition with two parts of one title: constructing the objects
\* for a document with two parts of one title, or with a part holding two
\* sections of one title, ends with the duplicate-name error (ValueError) and
\* without object; and qti_to_besser on such a document fails as a whole, no
\* definition is returned.
C4_DuplicateTitlesFailTheBuild ==
    /\ \A part \in t_parts : ~ SameTitleTwice(part.sections)
    /\ t_pc = "constructed" =>
          /\ Get(t_result).exc = "none" =>
                /\ ~ SameTitleTwice(Get(t_result).val.parts)
                /\ \A part \in Get(t_result).val.parts : ~ SameTitleTwice(part.sections)
          /\ (t_TwoPartsSameTitle \/ t_TwoSectionsSameTitle) =>
                Get(t_result) = Raise("ValueError")
    /\ (t_pc = "done" /\ (t_TwoPartsSameTitle \/ t_TwoSectionsSameTitle)) =>
          Get(t_result).exc # "none"

\* C4 witness: the parts of the document have distinct section titles each,
\* two of them bear the same title, every TestPart was constructed, and the
\* construction of the TestDefinition failed with the duplicate-name error.
C4_Witness ==
    /\ t_pc = "constructed"
    /\ t_TwoPartsSameTitle
    /\ ~ t_TwoSectionsSameTitle
    /\ Cardinality(t_parts) = 2
    /\ Get(t_result) = Raise("ValueError")

(***************************************************************************)
(* Claims settled under SpecBody.                                          *)
(***************************************************************************)
\* the content forms of a ParagraphBlock that are non-empty
b_FormsOf(pb) ==
    {f \in {"text"} : pb.text # None /\ Get(pb.text) # <<>>}
    \cup {f \in {"inline_elements"} :
             pb.inline_elements # None /\ Get(pb.inline_elements) # <<>>}
    \cup {f \in {"quote_blocks"} : pb.quote_blocks # None /\ Get(pb.quote_blocks) # {}}

\* C5: every ParagraphBlock created while parsing (body paragraph, pre block,
\* blockquote wrapper, paragraph of a blockquote, prompt paragraph, feedback
\* paragraph) has exactly one of its three content forms non-empty.
C5_ExactlyOneContentForm ==
    \A pb \in b_created : Cardinality(b_FormsOf(pb)) = 1

(***************************************************************************)
(* Claims settled under SpecItem.                                          *)
(***************************************************************************)
\* the element whose children make up item i: the root of the file of an href
\* item, the element itself of an embedded one
q_ItemRoot(i) ==
    IF Href(q_items[i].el) # <<>> THEN q_items[i].file.root ELSE q_items[i].el

\* the position of the item body among the children of item i (0: no body)
q_BodyAt(i) ==
    LET bs == ChildrenWhere(q_ItemRoot(i), "qti-item-body")
    IN  IF bs = {} THEN 0 ELSE CHOOSE b \in bs : \A c \in bs : c <= b

\* the choices declared in the body of item i: one for every simple choice of
\* every choice interaction of the body
q_DeclaredChoices(i) ==
    LET body == q_ItemRoot(i).children[q_BodyAt(i)]
    IN  UNION {{Choice(<<i, q_BodyAt(i), c, k>>,
                       AttribGet(body.children[c].children[k], "identifier", UNDEFINED),
                       Strip(IterText(body.children[c].children[k]))) :
                   k \in ChildrenWhere(body.children[c], "qti-simple-choice")} :
               c \in ChildrenWhere(body, "qti-choice-interaction")}

\* the qti-value elements of the correct responses of item i
q_Values(i) ==
    LET root == q_ItemRoot(i)
    IN  UNION {UNION {{root.children[d].children[c].children[v] :
                          v \in ChildrenWhere(root.children[d].children[c], "qti-value")} :
                      c \in ChildrenWhere(root.children[d], "qti-correct-response")} :
                  d \in ChildrenWhere(root, "qti-response-declaration")}

\* C1: in every Question produced, the correct choices of every response
\* declaration are choices of the body of that Question, and these are the
\* choices declared in the item's body, none made up; an identifier that
\* matches no choice raises nothing: AttributeError comes only from an item
\* holding a value element without text.
C1_CorrectChoicesAmongBodyChoices ==
    /\ \A qu \in q_questions :
          /\ qu.body.choices = q_DeclaredChoices(qu.oid[1])
          /\ \A rd \in qu.responses : rd.correct_choices \subseteq qu.body.choices
    /\ \A sk \in q_skipped :
          sk.why = "AttributeError" => \E v \in q_Values(sk.item) : v.text = <<>>
    /\ (q_result # None /\ Get(q_result).exc = "AttributeError") =>
          \E v \in q_Values(q_cur) : v.text = <<>>

\* C1 witness: a Question whose response declaration names the identifier C,
\* borne by no choice of the body, beside an identifier that a choice bears:
\* the Question was produced, with one correct choice out of two or more
\* choices of the body.
C1_Witness ==
    \E qu \in q_questions : \E rd \in qu.responses :
        /\ \E v \in q_Values(qu.oid[1]) : Strip(v.text) = S("C")
        /\ Cardinality(rd.correct_choices) = 1
        /\ Cardinality(qu.body.choices) >= 2

\* C3: whenever the response declarations of an item are built, the body of
\* that item has been scanned to its last child and the choices handed over
\* are the choices of all choice interactions of that body and of no other
\* item; the Question of an item is built only after that.
C3_ResponsesAfterCompleteBodyScan ==
    /\ \A u \in q_used :
          /\ q_BodyAt(u.item) # 0
          /\ u.scanned = Len(q_ItemRoot(u.item).children[q_BodyAt(u.item)].children)
          /\ u.choices = q_DeclaredChoices(u.item)
    /\ q_pc = "question" => \E u \in q_used : u.item = q_cur
    /\ \A qu \in q_questions : \E u \in q_used : u.item = qu.oid[1]

\* C3 witness: the responses of two items of one section were built, an href
\* item whose body has two choice interactions with one choice each, and an
\* embedded item.
C3_Witness ==
    \E u1, u2 \in q_used :
        /\ u1.item # u2.item
        /\ Href(q_items[u1.item].el) # <<>>
        /\ Href(q_items[u2.item].el) = <<>>
        /\ Cardinality(u1.choices) = 2
        /\ Cardinality(ChildrenWhere(q_ItemRoot(u1.item).children[q_BodyAt(u1.item)],
                                     "qti-choice-interaction")) = 2

\* the questions build_questions returned
q_ReturnedQuestions == Get(q_result).val

\* C7: for a section whose items are all given by href, a model is returned;
\* in it every item whose file is there and well-formed has exactly one
\* Question, bearing the identifier of the reference, and every item whose
\* file is absent or not well-formed has none.
C7_HrefItemsBuiltOrExcluded ==
    (q_pc = "done" /\ \A i \in 1 .. Len(q_items) : Href(q_items[i].el) # <<>>) =>
        /\ Get(q_result).exc = "none"
        /\ \A i \in 1 .. Len(q_items) :
              LET mine == {qu \in q_ReturnedQuestions : qu.oid = <<i>>}
              IN  IF q_items[i].file.state = "ok"
                  THEN /\ Cardinality(mine) = 1
                       /\ \A qu \in mine :
                             qu.identifier = AttribGet(q_items[i].el, "identifier", UNDEFINED)
                  ELSE mine = {}

\* C8: whatever fails while one item is built, on either path, a model is
\* returned, and every item of the section either has its Question in it or
\* was skipped.
C8_ItemFailuresSkipOnlyThatItem ==
    q_pc = "done" =>
        /\ Get(q_result).exc = "none"
        /\ \A i \in 1 .. Len(q_items) :
              \/ \E qu \in q_ReturnedQuestions : qu.oid = <<i>>
              \/ \E sk \in q_skipped : sk.item = i

(***************************************************************************)
(* More claims settled under SpecEnc.                                      *)
(***************************************************************************)
\* no attempt of qti_to_besser can decode the file
e_NoEncodingDecodes ==
    \A k \in 1 .. Len(tried_encodings(e_encoding)) :
        Decode(e_bytes, tried_encodings(e_encoding)[k]).exc = "UnicodeError"

\* the source file is missing, empty, undecodable in both attempts, or not
\* well-formed
e_BadSource ==
    \/ e_fs = "missing"
    \/ e_bytes = <<>>
    \/ e_fs = "ok" /\ e_NoEncodingDecodes
    \/ e_fs = "ok" /\ ~ WellFormed(e_text)

\* C11: for a source file that is missing, empty, undecodable in both
\* attempts or not well-formed, qti_to_besser returns None, and
\* run_qti_moodle_pipeline then neither calls the Moodle generator nor writes
\* an output file.
C11_BadSourceGivesNoOutput ==
    e_BadSource =>
        /\ e_pc \in {"done", "end"} => e_result = "None"
        /\ e_moodle = NotGenerated

\* C11 witness: the pipeline has ended on a readable document that is not
\* well-formed, the first attempt having decoded it: None, no generator call,
\* no file.
C11_Witness ==
    /\ e_pc = "end"
    /\ e_fs = "ok"
    /\ e_bytes # <<>>
    /\ ~ WellFormed(e_text)
    /\ Len(e_attempts) = 1
    /\ e_result = "None"
    /\ e_moodle = NotGenerated

(***************************************************************************)
(* Claims settled under SpecPipe.                                          *)
(***************************************************************************)
\* the decorated call has ended, with a result or an exception
p_CallEnded == p_pc \in {"save", "convert", "end"}

\* C12: the completion call is attempted at most three times, with a wait of
\* wait_fixed before every attempt but the first; only an attempt that raised
\* is followed by another one, and it is whenever fewer than three attempts
\* were made; the exception of a third failed attempt leaves the call; an
\* attempt that returns, XML text or None, is the last one and its value is
\* the result of the call.
C12_BoundedRetry ==
    /\ Len(p_log) <= 3
    /\ p_attempt_number \in 1 .. 3
    /\ p_wait = wait_fixed * (p_attempt_number - 1)
    /\ Len(p_log) = IF p_pc = "attempt" THEN p_attempt_number - 1 ELSE p_attempt_number
    /\ \A k \in 1 .. Len(p_log) : k < Len(p_log) => p_log[k].exc # "none"
    /\ p_pc = "sleep" => (Len(p_log) \in 1 .. 2 /\ p_log[Len(p_log)].exc # "none")
    /\ (Len(p_log) \in 1 .. 2 /\ p_log[Len(p_log)].exc # "none") =>
          (p_pc \in {"sleep", "attempt"} /\ p_call = None)
    /\ p_CallEnded =>
          /\ p_call = Some(p_log[Len(p_log)])
          /\ p_log[Len(p_log)].exc # "none" =>
                /\ Len(p_log) = 3
                /\ p_pc = "end"
                /\ p_raised = p_log[3].exc
                /\ p_besser = "pending"

\* C12 witness: two attempts raised and the third returned None, which ended
\* the call.
C12_Witness ==
    /\ p_pc = "save"
    /\ Len(p_log) = 3
    /\ p_log[1].exc # "none"
    /\ p_log[2].exc # "none"
    /\ p_log[3] = Return(None)
    /\ p_call = Some(Return(None))
    /\ p_wait = 2 * wait_fixed

\* the decorated call returned None
p_ResultIsNone == p_call = Some(Return(None))

\* what the output folder can hold as qti_output.xml before the call
p_QtiBefore == {None, Some(<<"<r>", "</r>">>)}

\* C13: when the completion call returns None, run_pdf_to_qti_pipeline writes
\* no qti_output.xml (the folder holds what it held before) and pdf_to_moodle
\* neither calls the Moodle generator nor writes a Moodle file.
C13_NoneResultEmitsNothing ==
    (p_ResultIsNone /\ p_pc \in {"convert", "end"}) =>
        /\ p_qti \in p_QtiBefore
        /\ p_pc = "end" => p_moodle = NotGenerated

(***************************************************************************)
(* More claims settled under SpecTree.                                     *)
(***************************************************************************)
\* C14: a parse of the document yields a model tree, and a second parse of
\* the same document yields the same one: the same parts, each with the same
\* sections.
C14_SameTreeWhateverTheOrder ==
    t_pc = "done" =>
        /\ Get(t_result).exc = "none"
        /\ TreeOf(t_doc) = Get(t_result)

(***************************************************************************)
(* More claims settled under SpecItem.                                     *)
(***************************************************************************)
\* C15: the one item of a section, with a choice interaction of the choices A
\* and B, one response declaration whose correct response is A and one modal
\* feedback with showHide="show", is returned as a Question with exactly one
\* ResponseDeclaration, whose correct_choices is {A}, and exactly one
\* ModalFeedback, which is not hidden.
C15_ShownFeedbackItemParses ==
    ( /\ q_pc = "done"
      /\ Len(q_items) = 1
      /\ q_ItemRoot(1).children = ShownFeedbackContents ) =>
        /\ Get(q_result).exc = "none"
        /\ \E question \in q_ReturnedQuestions :
              /\ Cardinality(question.responses) = 1
              /\ \A r \in question.responses :
                    /\ Cardinality(r.correct_choices) = 1
                    /\ \A c \in r.correct_choices : c.identifier = S("A")
              /\ Cardinality(question.feedbacks) = 1
              /\ \A f \in question.feedbacks : ~ f.is_hide

(***************************************************************************)
(* More claims settled under SpecBody.                                     *)
(***************************************************************************)
\* C16: build_feedbacks returns exactly one ModalFeedback for each
\* qti-modal-feedback element, hidden exactly when the element's showHide
\* attribute is not "show" (absent included).
C16_OneFeedbackPerElement ==
    b_pc = "done" =>
        /\ Get(b_fed).exc = "none"
        /\ Cardinality(Get(b_fed).val) = Len(b_feedbacks)
        /\ \A k \in 1 .. Len(b_feedbacks) :
              \E f \in Get(b_fed).val :
                  /\ f.oid = <<1 + k>>
                  /\ f.is_hide = (AttribGet(b_feedbacks[k], "showHide", UNDEFINED) # S("show"))

\* the QuestionBody returned by build_question_body
b_Body == Get(b_built).val.body

\* the paragraph element holds a text-entry interaction at some depth
b_HasWidget(p) ==
    \E k \in 1 .. Len(Preorder(p)) : Preorder(p)[k].tag = "qti-text-entry-interaction"

\* the ParagraphBlocks of the body built from the element with identity oid
b_BlocksAt(oid) ==
    {b_Body.paragraphs[k] : k \in {j \in 1 .. Len(b_Body.paragraphs) :
                                      b_Body.paragraphs[j].oid = oid}}

\* C17: a p child of the item body that holds no text-entry interaction is
\* stored as one ParagraphBlock whose text is the trimmed concatenation of the
\* paragraph's descendant text and whose inline_elements is empty.
C17_PlainParagraphIsText ==
    b_pc \in {"body", "done"} =>
        \A i \in ChildrenWhere(b_body, "p") :
            ~ b_HasWidget(b_body.children[i]) =>
                /\ Cardinality(b_BlocksAt(<<1, i>>)) = 1
                /\ \A pb \in b_BlocksAt(<<1, i>>) :
                      /\ pb.text = Some(Strip(IterText(b_body.children[i])))
                      /\ pb.inline_elements = Some(<<>>)

\* the positions of the text-entry interactions among the children of p
b_Widgets(p) == Sorted(ChildrenWhere(p, "qti-text-entry-interaction"))

\* every text-entry interaction of p is a child of p
b_WidgetsAreChildren(p) ==
    \A k \in 1 .. Len(Preorder(p)) :
        Preorder(p)[k].tag = "qti-text-entry-interaction" =>
            \E j \in 1 .. Len(p.children) : p.children[j] = Preorder(p)[k]

\* the text of p between its children a and b: the tail of a (the text of p
\* itself for a = 0), then the text and tail of every child after a and before
\* b, trimmed
b_TextBetween(p, a, b) ==
    Strip((IF a = 0 THEN p.text ELSE p.children[a].tail)
          \o Concat([k \in 1 .. b - a - 1 |->
                        IterText(p.children[a + k]) \o p.children[a + k].tail]))

\* run occurs in text as a contiguous piece
b_IsPieceOf(run, text) ==
    \E i \in 0 .. Len(text) - Len(run) : SubSeq(text, i + 1, i + Len(run)) = run

\* C18: for a p child of the item body whose text-entry interactions are its
\* children, the block's text is None and its inline_elements hold one marker
\* per widget, in document order; no text run is empty; every run is a piece
\* of the text inside the paragraph; the text before the first widget and the
\* text after the last one, when not blank, are the first and the last run.
C18_WidgetParagraphIsSplit ==
    b_pc \in {"body", "done"} =>
        \A i \in ChildrenWhere(b_body, "p") :
            LET p == b_body.children[i]
                ws == b_Widgets(p)
                before == b_TextBetween(p, 0, ws[1])
                after == b_TextBetween(p, ws[Len(ws)], Len(p.children) + 1)
            IN  (b_HasWidget(p) /\ b_WidgetsAreChildren(p)) =>
                  /\ Cardinality(b_BlocksAt(<<1, i>>)) = 1
                  /\ \A pb \in b_BlocksAt(<<1, i>>) :
                       LET inl == Get(pb.inline_elements)
                           IsMarker(e) == e.kind = "TextEntryInteraction"
                       IN  /\ pb.text = None
                           /\ SelectSeq(inl, IsMarker) =
                                 [k \in 1 .. Len(ws) |->
                                     TextEntryInteraction(
                                         AttribGet(p.children[ws[k]], "response-identifier",
                                                   UNDEFINED))]
                           /\ \A k \in 1 .. Len(inl) :
                                 inl[k].kind = "str" =>
                                     /\ inl[k].val # <<>>
                                     /\ b_IsPieceOf(inl[k].val, IterText(p))
                           /\ IF before # <<>> THEN inl[1] = InlineText(before)
                              ELSE IsMarker(inl[1])
                           /\ IF after # <<>> THEN inl[Len(inl)] = InlineText(after)
                              ELSE IsMarker(inl[Len(inl)])

\* the element with identity a comes before the one with identity b in the
\* document: identities are paths of child numbers
RECURSIVE b_Before(_, _)
b_Before(a, b) ==
    IF a = <<>> \/ b = <<>> THEN a = <<>> /\ b # <<>>
    ELSE IF Head(a) # Head(b) THEN Head(a) < Head(b)
    ELSE b_Before(Tail(a), Tail(b))

\* the blocks of the sequence follow each other as their elements do
b_InSourceOrder(blocks) ==
    \A j, k \in 1 .. Len(blocks) : j < k => b_Before(blocks[j].oid, blocks[k].oid)

\* C19: the paragraphs of the QuestionBody follow the order of the body's
\* children, the paragraphs of every BlockQuote follow the source order, and
\* the paragraphs of every Prompt, however they are iterated, follow the order
\* of the prompt's p children.
C19_DocumentOrderKept ==
    b_pc \in {"body", "done"} =>
        /\ b_InSourceOrder(b_Body.paragraphs)
        /\ \A k \in 1 .. Len(b_Body.paragraphs) :
              b_Body.paragraphs[k].quote_blocks # None =>
                  \A bq \in Get(b_Body.paragraphs[k].quote_blocks) :
                      b_InSourceOrder(bq.paragraphs)
        /\ \A pr \in b_Body.prompts :
              pr.paragraphs # None =>
                  \A order \in Orders(Get(pr.paragraphs)) : b_InSourceOrder(order)

\* the part of C19 about the body and its block quotes
b_ListsInSourceOrder ==
    b_pc \in {"body", "done"} =>
        /\ b_InSourceOrder(b_Body.paragraphs)
        /\ \A k \in 1 .. Len(b_Body.paragraphs) :
              b_Body.paragraphs[k].quote_blocks # None =>
                  \A bq \in Get(b_Body.paragraphs[k].quote_blocks) :
                      b_InSourceOrder(bq.paragraphs)

(***************************************************************************)
(* Claims settled under SpecUnknown.                                       *)
(***************************************************************************)
\* the identity an object built from a child of the element <<1>> has once
\* the child at position i is taken away: children after i move up by one
u_Moved(oid, i) ==
    IF Len(oid) >= 2 /\ oid[2] > i THEN [oid EXCEPT ![2] = @ - 1] ELSE oid

u_MovedAll(objs, i) == {[x EXCEPT !.oid = u_Moved(@, i)] : x \in objs}

u_MovedBlock(pb, i) ==
    [pb EXCEPT
        !.oid = u_Moved(@, i),
        !.quote_blocks =
            IF @ = None THEN None
            ELSE Some({[bq EXCEPT !.oid = u_Moved(@, i),
                                  !.paragraphs = [k \in 1 .. Len(bq.paragraphs) |->
                                      [bq.paragraphs[k] EXCEPT !.oid = u_Moved(@, i)]]] :
                          bq \in Get(@)})]

u_MovedPrompt(pr, i) ==
    [pr EXCEPT !.oid = u_Moved(@, i),
               !.paragraphs = IF @ = None THEN None ELSE Some(u_MovedAll(Get(@), i))]

u_MovedResult(level, val, i) ==
    CASE level = "body" ->
           [body |-> [val.body EXCEPT
                         !.prompts = {u_MovedPrompt(pr, i) : pr \in @},
                         !.paragraphs = [k \in 1 .. Len(val.body.paragraphs) |->
                                            u_MovedBlock(val.body.paragraphs[k], i)],
                         !.choices = u_MovedAll(@, i)],
            choices |-> u_MovedAll(val.choices, i)]
      [] level = "item" ->
           [response_set |-> u_MovedAll(val.response_set, i),
            feedback_set |-> u_MovedAll(val.feedback_set, i),
            body |-> IF val.body = None THEN None
                     ELSE Some([Get(val.body) EXCEPT !.oid = u_Moved(@, i)])]
      [] OTHER -> u_MovedAll(val, i)

\* C20: a child with an unrecognized tag of an item body, an item, a section
\* or a test part raises no error, and what the loop over the children
\* collects (paragraphs, choices and prompts; responses, feedbacks and body;
\* items; sections) is what it collects from the same element without that
\* child.
C20_UnknownChildIgnored ==
    u_pc = "done" =>
        /\ Get(u_with).exc = "none"
        /\ Get(u_without).exc = "none"
        /\ u_MovedResult(u_level, Get(u_with).val, u_at) = Get(u_without).val

(***************************************************************************)
(* Claims settled under SpecResponse.                                      *)
(***************************************************************************)
\* the qti-map-entry elements of the declaration: <<i, j>> is the j-th child
\* of its i-th child, a qti-mapping
r_MapEntries ==
    UNION {{<<i, j>> : j \in ChildrenWhere(r_elem.children[i], "qti-map-entry")} :
              i \in ChildrenWhere(r_elem, "qti-mapping")}

\* the declaration without its qti-mapping children
r_WithoutMappings ==
    [r_elem EXCEPT !.children =
        SelectSeq(r_elem.children, LAMBDA c : c.tag # "qti-mapping")]

\* C21: the ResponseDeclaration returned for a declaration element holds
\* exactly one Answer for every qti-map-entry of its qti-mapping children,
\* with the entry's map-key as text and its mapped-value as score (the empty
\* string for an absent attribute); without a mapping correct_answers is
\* empty; and correct_choices is what the same declaration without its
\* mappings gives.
C21_OneAnswerPerMapEntry ==
    (r_pc = "done" /\ Get(r_result).exc = "none") =>
        /\ Cardinality(Get(r_result).val) = 1
        /\ \A decl \in Get(r_result).val :
              /\ Cardinality(decl.correct_answers) = Cardinality(r_MapEntries)
              /\ \A e \in r_MapEntries :
                    \E a \in decl.correct_answers :
                        /\ a.oid = <<1, e[1], e[2]>>
                        /\ a.text = AttribGet(r_elem.children[e[1]].children[e[2]],
                                              "map-key", <<>>)
                        /\ a.score = AttribGet(r_elem.children[e[1]].children[e[2]],
                                               "mapped-value", <<>>)
              /\ ChildrenWhere(r_elem, "qti-mapping") = {} => decl.correct_answers = {}
              /\ decl.correct_choices =
                    ResponseOf(r_WithoutMappings, <<1>>, r_order).val.correct_choices

\* C21 witness: a declaration with the same one-entry mapping before and after
\* its correct response was built: two Answers, one for each of the equal
\* entries, and the correct choice A.
C21_Witness ==
    /\ r_pc = "done"
    /\ Get(r_result).exc = "none"
    /\ Len(r_elem.children) = 3
    /\ r_elem.children[2].tag = "qti-correct-response"
    /\ \A decl \in Get(r_result).val :
          /\ Cardinality(decl.correct_answers) = 2
          /\ \E c \in decl.correct_choices : c.identifier = S("A")

(***************************************************************************)
(* Claims settled under SpecMeta.                                          *)
(***************************************************************************)
\* the sections a constructed part holds now (none when sections is None)
m_SectionsOf(p) ==
    IF Get(m_part[p]).sections = None THEN {} ELSE m_sets[Get(Get(m_part[p]).sections)]

\* the parts the definition holds now (none without definition or parts)
m_PartsOfTest ==
    IF m_test = None THEN {}
    ELSE IF Get(m_test).parts = None THEN {} ELSE m_sets[Get(Get(m_test).parts)]

\* C22: in every reachable state of a TestPart or a TestDefinition (after
\* construction, after a re-assignment of its sections or parts, after a
\* change of a child's title through the child's title setter) no two of its
\* children share a title.
C22_SiblingTitlesUnique ==
    /\ \A p \in m_Parts : ~TitleUsedTwice(m_SectionsOf(p), m_SectionTitle)
    /\ ~TitleUsedTwice(m_PartsOfTest, m_PartTitle)

\* C30: a re-assignment of TestPart.sections or of TestDefinition.parts that
\* is rejected because two of the new children share a title leaves the
\* object with the set of children it had, that set with the members it
\* had, the object with all its other attributes, and every other object as
\* it was.
C30_RejectedAssignmentKeepsObject ==
    [][(/\ m_call'.op \in {"TestPart.sections", "TestDefinition.parts"}
        /\ m_exc' = "ValueError")
       => /\ m_part' = m_part
          /\ m_test' = m_test
          /\ m_section' = m_section
          /\ m_sets' = m_sets]_vars

\* a part constructed without sections has just refused a set of two
\* sections of one title, and holds no set
C30_Witness ==
    /\ m_call.op = "TestPart.sections"
    /\ m_exc = "ValueError"
    /\ Cardinality(m_sets[Get(m_call.children)]) = 2
    /\ Get(m_part[m_call.self]).sections = None

\* C25: TestSection.add_part(s) returns with s among the sub_sections of the
\* section, the sub_sections it had still there, and every other attribute of
\* the section unchanged.
C25_AddPartAdds ==
    [][m_call'.op = "TestSection.add_part"
       => LET self == m_call'.self
              before == m_section[self]
              after == m_section'[self] IN
          /\ m_exc' = "none"
          /\ Get(m_call'.children) \in after.sub_sections
          /\ before.sub_sections \subseteq after.sub_sections
          /\ [after EXCEPT !.sub_sections = {}] = [before EXCEPT !.sub_sections = {}]]_vars

(***************************************************************************)
(* Claims settled under SpecWalk.                                          *)
(***************************************************************************)
\* the loops that can take one element while its section is gone through
\* once: for child in body, itertext(), iter(), itertext() (lines 327-343)
LoopsOverOne == 4

w_VisitsBounded == \A p \in DOMAIN w_visits : w_visits[p] <= LoopsOverOne

w_Ended == w_pc \in {"returned", "raised"}

\* C23: for every finite document qti_to_besser terminates, returning,
\* returning None or raising an error, and so does build_questions called on
\* its own; no loop takes an element more often than four times.
C23_WalkTerminates == ([]w_VisitsBounded) /\ <>w_Ended

\* qti_to_besser has read a document of two parts in its second attempt, its
\* loop has taken every child of the root once and no other element, and the
\* call has ended with an error
C23_Witness ==
    /\ w_pc = "raised"
    /\ w_attempt = 2
    /\ Cardinality(ChildrenWhere(w_doc, "qti-test-part")) = 2
    /\ \A p \in DOMAIN w_visits :
          w_visits[p] = IF Len(p) = 1 /\ Head(p) # 0 THEN 1 ELSE 0

(***************************************************************************)
(* Claims settled under SpecTwo.                                           *)
(***************************************************************************)
\* the identities of the parts and sections of the model an invocation
\* returned
d_Entities(i) ==
    IF d_pc[i] # "done" THEN {}
    ELSE IF Get(d_result[i]).exc # "none" THEN {}
    ELSE LET parts == Get(d_result[i]).val.parts
         IN  {p.oid : p \in parts} \cup UNION {{s.oid : s \in p.sections} : p \in parts}

\* C24: two invocations of qti_to_besser on two documents, interleaved in
\* any way, each return a model, the one returned when the invocation runs
\* alone, and the models returned share no part and no section.
C24_InterleavedAsAlone ==
    /\ \A i \in Invocations :
          d_pc[i] = "done" =>
              /\ Get(d_result[i]).exc = "none"
              /\ Get(d_result[i]) = TreeOf(d_doc[i])
              /\ \A oid \in d_Entities(i) : Head(oid) = i
    /\ d_Entities(1) \cap d_Entities(2) = {}

(***************************************************************************)
(* More claims settled under SpecTree.                                     *)
(***************************************************************************)
\* the identities of the qti-assessment-section children of the element of a
\* part
t_OwnSections(part) ==
    {Append(part.oid, j) :
        j \in ChildrenWhere(t_doc.children[part.oid[1]], "qti-assessment-section")}

\* C26: qti_to_besser returns a tree, and in it the sections of each TestPart are
\* exactly those built from the qti-assessment-section children of its own
\* qti-test-part element, whatever the order in which the parts are gone
\* through: no section of one part appears in another.
C26_SectionsOfOwnPart ==
    t_pc = "done" =>
        /\ Get(t_result).exc = "none"
        /\ \A part \in Get(t_result).val.parts :
              {s.oid : s \in part.sections} = t_OwnSections(part)

(***************************************************************************)
(* Claims settled under SpecFeedback.                                      *)
(***************************************************************************)
\* C27: for an item with several qti-modal-feedback elements, build_feedbacks
\* returns for each element a ModalFeedback whose paragraphs are exactly the
\* paragraphs with non-empty text of that element: no paragraph of one
\* element is among the paragraphs of the ModalFeedback of another.
C27_FeedbackOwnsItsParagraphs ==
    (f_pc = "done" /\ Len(f_feedbacks) >= 2) =>
        /\ Get(f_result).exc = "none"
        /\ \A k \in 1 .. Len(f_feedbacks) :
              \E f \in Get(f_result).val :
                  /\ f.oid = f_feedbacks[k].oid
                  /\ f.paragraphs = Some(FeedbackParagraphs(f_feedbacks[k].el,
                                                            f_feedbacks[k].oid))

(***************************************************************************)
(* Claims settled under SpecMoodle.                                        *)
(***************************************************************************)
\* the rendering of this call has returned the text
g_Rendered == g_code # None /\ g_exc = "none"

\* C28: MoodleGenerator.generate opens the output file for writing only
\* after the rendering of the template has returned: what is at the path of
\* the output file changes only then; when the rendering fails its error
\* leaves generate and the path keeps what it had; the model handed to the
\* generator is never changed.
C28_FileOpenedAfterRendering ==
    [][/\ g_file' # g_file => g_Rendered
       /\ g_model' = g_model
       /\ (g_At("render") /\ g_template # "ok") =>
             /\ g_exc' = RenderTemplate(g_template, g_self.output_file_name, g_model).exc
             /\ g_exc' # "none"
             /\ g_file' = g_file]_vars

\* the template is missing, the error has left generate, and the file that
\* was at the path still has its content
C28_Witness ==
    /\ g_exc = "TemplateNotFound"
    /\ g_file = File(S("old"))

\* the rendering has returned and the file holds the text
g_Written ==
    /\ g_i > Len(GenerateSteps)
    /\ g_file = File(Get(g_code))

(***************************************************************************)
(* Claims settled under SpecItem: the two paths of build_questions.        *)
(***************************************************************************)
\* an object of the metamodel without the place of its item in the section:
\* two objects built from the same source at items i and j are two Python
\* objects, and equal here when they hold the same
ChoiceOfItem(c) == [c EXCEPT !.oid = Tail(@)]

ParagraphOfItem(p) ==
    [p EXCEPT !.oid = Tail(@),
              !.quote_blocks =
                  IF @ = None THEN None
                  ELSE Some({[oid |-> Tail(b.oid),
                              paragraphs |-> [k \in DOMAIN b.paragraphs |->
                                                 [b.paragraphs[k] EXCEPT !.oid = Tail(@)]]] :
                                b \in Get(@)})]

PromptOfItem(p) ==
    [p EXCEPT !.oid = Tail(@),
              !.paragraphs = IF @ = None THEN None
                             ELSE Some({ParagraphOfItem(x) : x \in Get(@)})]

BodyOfItem(body) ==
    [body EXCEPT !.prompts = {PromptOfItem(x) : x \in @},
                 !.paragraphs = [k \in DOMAIN @ |-> ParagraphOfItem(@[k])],
                 !.choices = {ChoiceOfItem(c) : c \in @}]

ResponseOfItem(r) ==
    [r EXCEPT !.oid = Tail(@),
              !.correct_choices = {ChoiceOfItem(c) : c \in @},
              !.correct_answers = {[a EXCEPT !.oid = Tail(@)] : a \in @}]

\* item j is loaded by href from a file holding the element that item i is
q_SameContent(i, j) ==
    /\ Resolve(q_items[i]).how = "embedded"
    /\ Resolve(q_items[j]).how = "href"
    /\ Get(Resolve(q_items[j]).root) = q_items[i].el

\* what has become of item i: skipped (its exception caught, the loop goes
\* on), a Question in questions_set, or the exception left build_questions
\* while the item was built
q_OutcomeOf(i) ==
    CASE \E s \in q_skipped : s.item = i -> [kind |-> "skipped", question |-> None]
      [] \E q \in q_questions : q.oid = <<i>> ->
           LET q == CHOOSE x \in q_questions : x.oid = <<i>>
           IN  [kind |-> "question",
                question |-> Some([title |-> q.title, language |-> q.language,
                                   adaptive |-> q.adaptive,
                                   time_dependent |-> q.time_dependent,
                                   body |-> BodyOfItem(q.body),
                                   responses |-> {ResponseOfItem(r) : r \in q.responses},
                                   feedbacks |-> q.feedbacks])]
      [] q_pc = "done" /\ q_cur = i /\ Get(q_result).exc # "none" ->
           [kind |-> "failed", question |-> None]
      [] OTHER -> [kind |-> "pending", question |-> None]

\* C29: an item embedded in the section and an item of the same content
\* loaded from a file by href have the same outcome: both yield a Question
\* with equal title, language, adaptive, time-dependent, body, responses and
\* feedbacks, or both are skipped, or both fail the build.
C29_EmbeddedAsHref ==
    \A i, j \in DOMAIN q_items :
        (/\ q_SameContent(i, j)
         /\ q_OutcomeOf(i).kind # "pending"
         /\ q_OutcomeOf(j).kind # "pending") => q_OutcomeOf(i) = q_OutcomeOf(j)

====
